---- MODULE Spec2Model ----
(***************************************************************************)
(* TerminalWave playback engine, RenderState revision                      *)
(* (src/music.cpp lines 591-1590): the audio thread (audio_thread calling  *)
(* play_file) and the UI thread (main's key loop), sharing the playlist,   *)
(* the transport atomics and the published RenderState.                    *)
(*                                                                         *)
(* Each thread is a program counter (apc, upc) over the statements of its  *)
(* function; one action is one atomic access to shared state, together     *)
(* with the thread-local statements that follow it.  A mutex is a variable *)
(* naming its holder; a condition-variable wait is a predicate step, an    *)
(* atomic unlock-and-block step, and a relock step after the wake-up.      *)
(*                                                                         *)
(* Times: decoder positions are in samples; every track of the model has   *)
(* Rate samples per second and a successful read yields one second of      *)
(* audio, so positions are multiples of Rate and seconds = samples / Rate. *)
(***************************************************************************)
EXTENDS Integers, Sequences, FiniteSets, TLC

\* ------------------------------------------------------------- bounds
MaxCmds == 3        \* key presses delivered to main's loop in one run
MaxPush == 2        \* tracks pushed to the playlist in one run
Rate == 2           \* sample rate the decoder reports for a track
LengthSec == 2      \* length of a track, in seconds
MaxPos == 12        \* largest position and length of the seek-arithmetic specification
MaxRate == 3        \* largest sample rate of the seek-arithmetic specification
MaxFrames == 4      \* most frames in a chunk of the spectrum-input specification
MaxSample == 1      \* largest sample magnitude of the spectrum-input specification

\* ------------------------------------------------------------- program constants
SeekStep == 5
FFT_SIZE == 1024
BUFFER_SIZE == 8192

NoTrack == 0

\* ------------------------------------------------------------- mutexes
MutexFreeNoCheck(m) == TRUE

MutexFree(m) == m = "free"

\* ------------------------------------------------------------- std::deque<std::string> playlist
FrontLast(q) == q[Len(q)]

Front(q) == q[1]

PopFrontKeep(q) == q

PopFront(q) == Tail(q)

PushBack(q, t) == Append(q, t)

ClearedKeep(q) == q

Cleared(q) == <<>>

RECURSIVE SeqToSet(_)
SeqToSet(s) == IF s = <<>> THEN {} ELSE {Head(s)} \cup SeqToSet(Tail(s))

RECURSIVE SeqSum(_)
SeqSum(s) == IF s = <<>> THEN 0 ELSE Head(s) + SeqSum(Tail(s))

\* ------------------------------------------------------------- seek arithmetic (play_file)
\* curPos is mpg123_tell's result (negative on error), cmdSec the consumed
\* seekCommand, r and len the rate and length reported at open (len <= 0: unknown).
SeekTargetNoUpperClamp(curPos, cmdSec, r, len) ==
    LET cp == IF curPos < 0 THEN 0 ELSE curPos
        np == cp + cmdSec * r
    IN  IF np < 0 THEN 0 ELSE np

SeekTarget(curPos, cmdSec, r, len) ==
    LET cp == IF curPos < 0 THEN 0 ELSE curPos
        np == cp + cmdSec * r
        lo == IF np < 0 THEN 0 ELSE np
    IN  IF len > 0 /\ lo > len THEN len ELSE lo

\* ------------------------------------------------------------- decode-session resources
Resources == {"lib", "mh", "file", "pa", "stream", "fftIn", "fftOut", "plan"}

NoResources == [r \in Resources |-> "none"]

\* Opening steps that can fail, in program order.
OpenSteps == <<"init", "new", "open", "getformat", "pa_init", "device",
               "open_stream", "start_stream">>

\* What the session holds when the given Opening step fails.
HeldAtOpenFail(step) ==
    CASE step = "init"         -> {}
      [] step = "new"          -> {"lib"}
      [] step = "open"         -> {"lib", "mh"}
      [] step = "getformat"    -> {"lib", "mh", "file"}
      [] step = "pa_init"      -> {"lib", "mh", "file"}
      [] step = "device"       -> {"lib", "mh", "file", "pa"}
      [] step = "open_stream"  -> {"lib", "mh", "file", "pa"}
      [] step = "start_stream" -> {"lib", "mh", "file", "pa", "stream"}

HeldAfterOpen == {"lib", "mh", "file", "pa", "stream"}

\* What the failure branch of the given Opening step releases, in order.
OpenFailReleasesLeaky(step) ==
    CASE step = "init"         -> <<>>
      [] step = "new"          -> <<"lib">>
      [] step = "open"         -> <<"mh", "lib">>
      [] step = "getformat"    -> <<"file", "mh", "lib">>
      [] step = "pa_init"      -> <<"file", "mh", "lib">>
      [] step = "device"       -> <<"pa", "file", "mh", "lib">>
      [] step = "open_stream"  -> <<"pa", "file", "mh", "lib">>
      [] step = "start_stream" -> <<"pa", "file", "mh", "lib">>

OpenFailReleases(step) ==
    CASE step = "init"         -> <<>>
      [] step = "new"          -> <<"lib">>
      [] step = "open"         -> <<"mh", "lib">>
      [] step = "getformat"    -> <<"file", "mh", "lib">>
      [] step = "pa_init"      -> <<"file", "mh", "lib">>
      [] step = "device"       -> <<"pa", "file", "mh", "lib">>
      [] step = "open_stream"  -> <<"pa", "file", "mh", "lib">>
      [] step = "start_stream" -> <<"stream", "pa", "file", "mh", "lib">>

\* Releases of the transform-buffer failure branch: each buffer only if it was
\* allocated, then the stream, the output subsystem and the decoder.
FftFailReleases(gotIn, gotOut) ==
    (IF gotIn THEN <<"fftIn">> ELSE <<>>) \o (IF gotOut THEN <<"fftOut">> ELSE <<>>)
        \o <<"stream", "pa", "file", "mh", "lib">>

PlanFailReleases == <<"fftIn", "fftOut", "stream", "pa", "file", "mh", "lib">>

ClosingReleasesDecoderFirst ==
    <<"file", "mh", "lib", "plan", "fftIn", "fftOut", "stream", "pa">>

ClosingReleases == <<"plan", "fftIn", "fftOut", "stream", "pa", "file", "mh", "lib">>

\* The resources made from the given one, which use it for as long as they are
\* held: the handle and the open file need the library, the open file the handle,
\* the stream the output subsystem, the plan both transform buffers.
UsersOf(r) ==
    CASE r = "lib" -> {"mh", "file"}
      [] r = "mh"  -> {"file"}
      [] r = "pa"  -> {"stream"}
      [] r \in {"fftIn", "fftOut"} -> {"plan"}
      [] OTHER -> {}

Acquire(rs, S) == [r \in Resources |->
    IF r \in S THEN (IF rs[r] = "none" THEN "held" ELSE "bad") ELSE rs[r]]

\* Releasing what is not held (never acquired, or already released) is "bad",
\* and so is releasing what a resource still held uses.
RECURSIVE ReleaseAll(_, _)
ReleaseAll(rs, seq) ==
    IF seq = <<>> THEN rs
    ELSE ReleaseAll([rs EXCEPT ![Head(seq)] =
                        IF @ = "held" /\ \A u \in UsersOf(Head(seq)) : rs[u] # "held"
                        THEN "freed" ELSE "bad"],
                    Tail(seq))

\* ------------------------------------------------------------- RenderState
IdleRender == [file |-> NoTrack, curSec |-> 0, totalSec |-> 0, mode |-> "WAVEFORM",
               paused |-> FALSE, mono |-> 0, magnitudes |-> 0]

VARIABLES
    \* atomics
    shouldQuit, stopTrack, isPlaying, isPaused, seekCommand, visMode,
    \* playlist and its lock
    playlist, playlistMutex,
    \* pause lock
    pauseMutex,
    \* published state
    renderMutex, renderState, renderDirty,
    \* audio thread: position, and the locals of audio_thread / play_file
    apc, nextPath, wasPaused, currentSec, modeLocal,
    \* decode session: decoder position, reported length and sample rate,
    \* resources, stream state
    decPos, length, rate, res, streamRunning,
    \* the first-channel samples of the chunk in play_file's buffer, and the
    \* transform input fftIn in units of 1/32768 (<<>>: not written yet)
    buffer, fftIn, monoLocal,
    \* UI thread: position, the locals of main's loop, the keys consumed so far and
    \* the next file of the directory listing (files are numbered in push order)
    upc, newPaused, snap, toPush, cmds, nextTrack,
    \* history of the run (read by the properties only)
    hist

atomics == <<shouldQuit, stopTrack, isPlaying, isPaused, seekCommand, visMode>>
queueV  == <<playlist, playlistMutex>>
renderV == <<renderMutex, renderState, renderDirty>>
audLoc  == <<nextPath, wasPaused, currentSec, modeLocal>>
decV    == <<decPos, length, rate, res, streamRunning>>
uiV     == <<upc, newPaused, snap, toPush, cmds, nextTrack>>
dspV    == <<buffer, fftIn, monoLocal>>

vars == <<atomics, queueV, pauseMutex, renderV, apc, audLoc, decV, dspV, uiV, hist>>

\* ------------------------------------------------------------- history
\* issued      seek deltas the UI stored since the worker last zeroed seekCommand
\* applied     <<issued, cmdSec, curPos>> of the seek of the worker's latest
\*             exchange (<<>>: it found 0)
\* popped      the tracks audio_thread dequeued, in order
\* removed     the tracks removed by playlist.clear()
\* purged      whether any clear ran
\* repl        the track of the latest Enter (replace) with no push since
\* replPops    the tracks dequeued since that replace
\* stopHit     the dequeued track that was in flight when key x raised stopTrack
\* playedOn    that track passed play_file's loop condition afterwards
\* stopBy      the track pushed by the Enter whose stopTrack.store(true) is the latest
\* selfKilled  a track left its loop on the stop flag raised by its own Enter
\* pauseClean  no seek key since the latest Pause (p turning isPaused on)
\* pauseBase   elapsed seconds published when the worker entered Paused (-1: none)
\* pausePos    decoder position when the worker entered Paused
\* seekSincePub the worker applied a seek since its latest per-chunk publish
\* cross       <<before, after, pauseClean, seekSincePub>> of the latest first
\*             per-chunk publish after a pause
\* exit        how the play_file call in progress left Opening or its loop, until
\*             audio_thread goes on: "open", "fft", "plan" (return false), "end"
\*             (MPG123_DONE), "read", "write" (errors), "stop" (stopTrack or
\*             shouldQuit); "none" otherwise
\* carried     the transport flags that were raised when the play_file call in
\*             progress was entered, until its first loop test
\* stale       those of them whose value has not been stored anew since
HistInit == [issued |-> <<>>, applied |-> <<>>,
             popped |-> <<>>, removed |-> {}, purged |-> FALSE,
             repl |-> NoTrack, replPops |-> <<>>,
             stopHit |-> NoTrack, playedOn |-> FALSE,
             stopBy |-> NoTrack, selfKilled |-> FALSE,
             pauseClean |-> FALSE, pauseBase |-> -1, pausePos |-> 0,
             seekSincePub |-> FALSE,
             cross |-> <<>>, exit |-> "none",
             kept |-> {}, published |-> IdleRender, torn |-> FALSE,
             unseen |-> FALSE, lateStop |-> 0, latePause |-> 0,
             released |-> <<>>, carried |-> {}, stale |-> {}]

Init ==
    /\ shouldQuit = FALSE /\ stopTrack = FALSE /\ isPlaying = FALSE
    /\ isPaused = FALSE /\ seekCommand = 0 /\ visMode = "WAVEFORM"
    /\ playlist = <<>> /\ playlistMutex = "free"
    /\ pauseMutex = "free"
    /\ renderMutex = "free" /\ renderState = IdleRender /\ renderDirty = FALSE
    /\ apc = "A_while" /\ nextPath = NoTrack /\ wasPaused = FALSE
    /\ currentSec = 0 /\ modeLocal = "WAVEFORM"
    /\ decPos = 0 /\ length = 0 /\ rate = Rate /\ res = NoResources /\ streamRunning = FALSE
    /\ buffer = <<>> /\ fftIn = <<>> /\ monoLocal = <<>>
    /\ upc = "U_while" /\ newPaused = FALSE /\ snap = IdleRender
    /\ toPush = 0 /\ cmds = 0 /\ nextTrack = 1
    /\ hist = HistInit

\* The positions of the audio thread at which a dequeued track is in flight: from
\* the pop up to play_file's return.
NotInFlightPcs == {"A_while", "A_lock", "A_relock", "A_pred", "A_cvwait", "A_blocked",
                   "A_chkquit", "A_pop", "A_postplay", "A_exit", "A_done"}

InFlightPcs == {"A_clrstop", "P_open", "P_setPlaying", "P_clrPaused", "P_clrSeek",
                "P_fft", "P_plan", "P_pub0_lock", "P_pub0", "P_pub0_rest",
                "P_pub0_dirty",
                "P_loop", "P_pausechk", "P_seek", "P_read", "P_write", "P_feat",
                "P_cpub_lock", "P_cpub", "P_cpub_rest", "P_cpub_dirty",
                "P_pstop", "P_ppub_lock", "P_ppub", "P_ppub_dirty", "P_plock",
                "P_ppred", "P_pcvwait", "P_pblocked", "P_prelock", "P_restart",
                "P_rpub_lock", "P_rpub", "P_rpub_dirty", "P_pbreak",
                "C_free", "C_clrPlaying", "C_pub_lock", "C_pub", "C_pub_rest",
                "C_pub_dirty"}

\* ------------------------------------------------------------- condition variables
\* Only the audio thread ever waits; a notify moves it from blocked to relock.
NotifyPlaylistCVLost(pc) == pc

NotifyPlaylistCV(pc) == IF pc = "A_blocked" THEN "A_relock" ELSE pc

NotifyPauseCV(pc) == IF pc = "P_pblocked" THEN "P_prelock" ELSE pc

\* A condition_variable wait may return without a notify.
SpuriousWake ==
    /\ apc \in {"A_blocked", "P_pblocked"}
    /\ apc' = IF apc = "A_blocked" THEN "A_relock" ELSE "P_prelock"
    /\ UNCHANGED <<atomics, queueV, pauseMutex, renderV, audLoc, decV, uiV, hist>>
    /\ UNCHANGED dspV

\* ------------------------------------------------------------- audio_thread
\* while (!shouldQuit.load())
AWhile ==
    /\ apc = "A_while"
    /\ apc' = IF shouldQuit THEN "A_exit" ELSE "A_lock"
    /\ UNCHANGED <<atomics, queueV, pauseMutex, renderV, audLoc, decV, uiV, hist>>
    /\ UNCHANGED dspV

\* std::unique_lock<std::mutex> lock(playlistMutex), and the relock after a wake-up
ALock ==
    /\ apc \in {"A_lock", "A_relock"}
    /\ MutexFree(playlistMutex)
    /\ playlistMutex' = "audio"
    /\ apc' = "A_pred"
    /\ UNCHANGED <<atomics, playlist, pauseMutex, renderV, audLoc, decV, uiV, hist>>
    /\ UNCHANGED dspV

\* playlistCV.wait's predicate: shouldQuit.load() || !playlist.empty()
APred ==
    /\ apc = "A_pred"
    /\ apc' = IF shouldQuit \/ playlist # <<>> THEN "A_chkquit" ELSE "A_cvwait"
    /\ UNCHANGED <<atomics, queueV, pauseMutex, renderV, audLoc, decV, uiV, hist>>
    /\ UNCHANGED dspV

\* playlistCV.wait: unlock and block, atomically
ACvWait ==
    /\ apc = "A_cvwait"
    /\ playlistMutex' = "free"
    /\ apc' = "A_blocked"
    /\ UNCHANGED <<atomics, playlist, pauseMutex, renderV, audLoc, decV, uiV, hist>>
    /\ UNCHANGED dspV

\* if (shouldQuit.load()) break;
AChkQuitIgnores ==
    /\ apc = "A_chkquit"
    /\ apc' = "A_pop"
    /\ UNCHANGED <<atomics, queueV, pauseMutex, renderV, audLoc, decV, dspV, uiV, hist>>

AChkQuit ==
    /\ apc = "A_chkquit"
    /\ IF shouldQuit
       THEN /\ playlistMutex' = "free"
            /\ apc' = "A_exit"
       ELSE /\ apc' = "A_pop"
            /\ UNCHANGED playlistMutex
    /\ UNCHANGED <<atomics, playlist, pauseMutex, renderV, audLoc, decV, uiV, hist>>
    /\ UNCHANGED dspV

\* nextPath = playlist.front(); playlist.pop_front();  (else: continue)
APop ==
    /\ apc = "A_pop"
    /\ IF playlist # <<>>
       THEN /\ nextPath' = Front(playlist)
            /\ playlist' = PopFront(playlist)
            /\ apc' = "A_clrstop"
            /\ hist' = [hist EXCEPT
                 !.popped = Append(@, Front(playlist)),
                 !.replPops = IF hist.repl # NoTrack
                              THEN Append(@, Front(playlist)) ELSE @]
       ELSE /\ apc' = "A_while"
            /\ UNCHANGED <<nextPath, playlist, hist>>
    /\ playlistMutex' = "free"
    /\ UNCHANGED <<atomics, pauseMutex, renderV, wasPaused, currentSec, modeLocal,
                   decV, uiV>>
    /\ UNCHANGED dspV

\* stopTrack.store(false);
AClrStopKeeps ==
    /\ apc = "A_clrstop"
    /\ apc' = "P_open"
    /\ UNCHANGED <<atomics, queueV, pauseMutex, renderV, audLoc, decV, uiV, hist>>
    /\ UNCHANGED dspV

AClrStop ==
    /\ apc = "A_clrstop"
    /\ stopTrack' = FALSE
    /\ apc' = "P_open"
    /\ hist' = [hist EXCEPT !.lateStop = 0]
    /\ UNCHANGED <<shouldQuit, isPlaying, isPaused, seekCommand, visMode, queueV,
                   pauseMutex, renderV, audLoc, decV, uiV>>
    /\ UNCHANGED dspV

\* after play_file: if (shouldQuit.load()) break;
APostPlayStops ==
    /\ apc = "A_postplay"
    /\ apc' = "A_exit"
    /\ hist' = [hist EXCEPT !.stopHit = NoTrack, !.pauseBase = -1,
                            !.seekSincePub = FALSE, !.exit = "none",
                            !.released = <<>>, !.carried = {}, !.stale = {}]
    /\ UNCHANGED <<atomics, queueV, pauseMutex, renderV, audLoc, decV, dspV, uiV>>

APostPlay ==
    /\ apc = "A_postplay"
    /\ apc' = IF shouldQuit THEN "A_exit" ELSE "A_while"
    /\ hist' = [hist EXCEPT !.stopHit = NoTrack, !.pauseBase = -1,
                            !.seekSincePub = FALSE, !.exit = "none",
                            !.released = <<>>, !.carried = {}, !.stale = {}]
    /\ UNCHANGED <<atomics, queueV, pauseMutex, renderV, audLoc, decV, uiV>>
    /\ UNCHANGED dspV

\* isPlaying.store(false); and the thread ends
AExitClearsQuit ==
    /\ apc = "A_exit"
    /\ isPlaying' = FALSE
    /\ shouldQuit' = FALSE
    /\ apc' = "A_done"
    /\ UNCHANGED <<stopTrack, isPaused, seekCommand, visMode, queueV,
                   pauseMutex, renderV, audLoc, decV, dspV, uiV, hist>>

AExit ==
    /\ apc = "A_exit"
    /\ isPlaying' = FALSE
    /\ apc' = "A_done"
    /\ UNCHANGED <<shouldQuit, stopTrack, isPaused, seekCommand, visMode, queueV,
                   pauseMutex, renderV, audLoc, decV, uiV, hist>>
    /\ UNCHANGED dspV

\* ------------------------------------------------------------- play_file: Opening
TotalSec(len, r) == IF len > 0 THEN len \div r ELSE 0

\* mpg123_init .. Pa_StartStream: any step may fail, its branch releases and
\* returns false; otherwise the session holds decoder and running stream.
RaisedFlags ==
    (IF isPaused THEN {"pause"} ELSE {}) \cup (IF seekCommand # 0 THEN {"seek"} ELSE {})

POpen ==
    /\ apc = "P_open"
    /\ \/ \E i \in 1..Len(OpenSteps) :
            /\ res' = ReleaseAll(Acquire(NoResources, HeldAtOpenFail(OpenSteps[i])),
                                 OpenFailReleases(OpenSteps[i]))
            /\ apc' = "A_postplay"
            /\ hist' = [hist EXCEPT !.exit = "open"]
            /\ UNCHANGED <<decPos, length, rate, streamRunning>>
       \/ /\ res' = Acquire(NoResources, HeldAfterOpen)
          /\ decPos' = 0
          /\ length' = LengthSec * Rate
          /\ rate' = Rate
          /\ streamRunning' = TRUE
          /\ apc' = "P_setPlaying"
          /\ hist' = [hist EXCEPT !.carried = RaisedFlags, !.stale = RaisedFlags]
    /\ UNCHANGED <<atomics, queueV, pauseMutex, renderV, audLoc, uiV>>
    /\ UNCHANGED dspV

\* isPlaying.store(true);
PSetPlaying ==
    /\ apc = "P_setPlaying"
    /\ isPlaying' = TRUE
    /\ apc' = "P_clrPaused"
    /\ UNCHANGED <<shouldQuit, stopTrack, isPaused, seekCommand, visMode, queueV,
                   pauseMutex, renderV, audLoc, decV, uiV, hist>>
    /\ UNCHANGED dspV

\* isPaused.store(false);
PClrPausedKeeps ==
    /\ apc = "P_clrPaused"
    /\ apc' = "P_clrSeek"
    /\ hist' = [hist EXCEPT !.latePause = 0]
    /\ UNCHANGED <<atomics, queueV, pauseMutex, renderV, audLoc, decV, dspV, uiV>>

PClrPaused ==
    /\ apc = "P_clrPaused"
    /\ isPaused' = FALSE
    /\ apc' = "P_clrSeek"
    /\ hist' = [hist EXCEPT !.latePause = 0, !.stale = @ \ {"pause"}]
    /\ UNCHANGED <<shouldQuit, stopTrack, isPlaying, seekCommand, visMode, queueV,
                   pauseMutex, renderV, audLoc, decV, uiV>>
    /\ UNCHANGED dspV

\* seekCommand.store(0);
PClrSeek ==
    /\ apc = "P_clrSeek"
    /\ seekCommand' = 0
    /\ apc' = "P_fft"
    /\ hist' = [hist EXCEPT !.issued = <<>>, !.stale = @ \ {"seek"}]
    /\ UNCHANGED <<shouldQuit, stopTrack, isPlaying, isPaused, visMode, queueV,
                   pauseMutex, renderV, audLoc, decV, uiV>>
    /\ UNCHANGED dspV

\* fftw_malloc of fftIn and fftOut; on failure free what was allocated, stop and
\* close the stream, close the decoder, isPlaying.store(false), return false.
PFft ==
    /\ apc = "P_fft"
    /\ \/ \E gotIn, gotOut \in BOOLEAN :
            /\ ~(gotIn /\ gotOut)
            /\ res' = ReleaseAll(
                 Acquire(res, (IF gotIn THEN {"fftIn"} ELSE {})
                              \cup (IF gotOut THEN {"fftOut"} ELSE {})),
                 FftFailReleases(gotIn, gotOut))
            /\ streamRunning' = FALSE
            /\ isPlaying' = FALSE
            /\ apc' = "A_postplay"
            /\ hist' = [hist EXCEPT !.exit = "fft"]
       \/ /\ res' = Acquire(res, {"fftIn", "fftOut"})
          /\ apc' = "P_plan"
          /\ UNCHANGED <<streamRunning, isPlaying, hist>>
    /\ UNCHANGED <<shouldQuit, stopTrack, isPaused, seekCommand, visMode, queueV,
                   pauseMutex, renderV, audLoc, decPos, length, rate, uiV>>
    /\ UNCHANGED dspV

\* fftw_plan_dft_r2c_1d; on failure the same releases, with both buffers.
PPlanFailPublishes ==
    /\ apc = "P_plan"
    /\ \/ /\ res' = ReleaseAll(res, PlanFailReleases)
          /\ streamRunning' = FALSE
          /\ isPlaying' = FALSE
          /\ renderState' = [renderState EXCEPT !.curSec = 0, !.totalSec = 0]
          /\ renderDirty' = TRUE
          /\ apc' = "A_postplay"
          /\ hist' = [hist EXCEPT !.exit = "plan"]
       \/ /\ res' = Acquire(res, {"plan"})
          /\ apc' = "P_pub0_lock"
          /\ UNCHANGED <<streamRunning, isPlaying, renderState, renderDirty, hist>>
    /\ UNCHANGED <<shouldQuit, stopTrack, isPaused, seekCommand, visMode, queueV,
                   pauseMutex, renderMutex, audLoc, decPos, length, rate, dspV, uiV>>

PPlan ==
    /\ apc = "P_plan"
    /\ \/ /\ res' = ReleaseAll(res, PlanFailReleases)
          /\ streamRunning' = FALSE
          /\ isPlaying' = FALSE
          /\ apc' = "A_postplay"
          /\ hist' = [hist EXCEPT !.exit = "plan"]
       \/ /\ res' = Acquire(res, {"plan"})
          /\ apc' = "P_pub0_lock"
          /\ UNCHANGED <<streamRunning, isPlaying, hist>>
    /\ UNCHANGED <<shouldQuit, stopTrack, isPaused, seekCommand, visMode, queueV,
                   pauseMutex, renderV, audLoc, decPos, length, rate, uiV>>
    /\ UNCHANGED dspV

\* std::lock_guard<std::mutex> lk(renderMutex), at each of the worker's publishes
RenderLockPcs == {"P_pub0_lock", "P_ppub_lock", "P_rpub_lock", "P_cpub_lock",
                  "C_pub_lock"}

AfterRenderLock(pc) ==
    CASE pc = "P_pub0_lock" -> "P_pub0"
      [] pc = "P_ppub_lock" -> "P_ppub"
      [] pc = "P_rpub_lock" -> "P_rpub"
      [] pc = "P_cpub_lock" -> "P_cpub"
      [] pc = "C_pub_lock"  -> "C_pub"

PRenderLock ==
    /\ apc \in RenderLockPcs
    /\ MutexFree(renderMutex)
    /\ renderMutex' = "audio"
    /\ apc' = AfterRenderLock(apc)
    /\ UNCHANGED <<atomics, queueV, pauseMutex, renderState, renderDirty, audLoc,
                   decV, uiV, hist>>
    /\ UNCHANGED dspV

\* renderDirty.store(true, std::memory_order_release), after each publish
RenderDirtyPcs == {"P_pub0_dirty", "P_ppub_dirty", "P_rpub_dirty", "P_cpub_dirty",
                   "C_pub_dirty"}

AfterRenderDirty(pc) ==
    CASE pc = "P_pub0_dirty" -> "P_loop"
      [] pc = "P_ppub_dirty" -> "P_plock"
      [] pc = "P_rpub_dirty" -> "P_pbreak"
      [] pc = "P_cpub_dirty" -> "P_loop"
      [] pc = "C_pub_dirty"  -> "A_postplay"

PRenderDirty ==
    /\ apc \in RenderDirtyPcs
    /\ renderDirty' = TRUE
    /\ apc' = AfterRenderDirty(apc)
    /\ UNCHANGED <<atomics, queueV, pauseMutex, renderMutex, renderState, audLoc,
                   decV, uiV, hist>>
    /\ UNCHANGED dspV

\* struct RenderState: its fields
RenderFields == {"file", "curSec", "totalSec", "mode", "paused", "mono", "magnitudes"}

\* The end of one of the worker's critical sections on renderMutex: kept holds the
\* fields the section did not assign.
Publishes(h, rs, kept) ==
    [h EXCEPT !.kept = kept, !.published = rs, !.unseen = TRUE]

\* the publish at track start, in two steps: file, curSec, totalSec, mode
PPub0 ==
    /\ apc = "P_pub0"
    /\ renderState' = [renderState EXCEPT !.file = nextPath, !.curSec = 0,
                          !.totalSec = TotalSec(length, rate), !.mode = visMode]
    /\ apc' = "P_pub0_rest"
    /\ hist' = [hist EXCEPT !.kept = RenderFields \ {"file", "curSec", "totalSec", "mode"}]
    /\ UNCHANGED <<atomics, queueV, pauseMutex, renderMutex, renderDirty, audLoc,
                   decV, uiV>>
    /\ UNCHANGED dspV

\* paused, mono, magnitudes, and the lock_guard's scope ends; then
\* wasPaused = false, currentSec = 0.0
PPub0Rest ==
    /\ apc = "P_pub0_rest"
    /\ renderState' = [renderState EXCEPT !.paused = FALSE, !.mono = FFT_SIZE,
                                          !.magnitudes = 0]
    /\ renderMutex' = "free"
    /\ wasPaused' = FALSE
    /\ currentSec' = 0
    /\ apc' = "P_pub0_dirty"
    /\ hist' = Publishes(hist, renderState',
                         hist.kept \ {"paused", "mono", "magnitudes"})
    /\ UNCHANGED <<atomics, queueV, pauseMutex, renderDirty, nextPath, modeLocal,
                   decV, uiV>>
    /\ UNCHANGED dspV

\* ------------------------------------------------------------- play_file: Streaming
\* The chunk a successful read leaves in buffer: one second of audio, given by
\* the first-channel sample of each frame (frame k holds the sample k).
Chunk(r) == [k \in 1..r |-> k]

\* std::round of the non-negative quotient a / b
RoundDiv(a, b) == (2 * a + b) \div (2 * b)

clampi(v, lo, hi) == IF v < lo THEN lo ELSE IF v > hi THEN hi ELSE v

\* src of column i (0-based) of n columns, for a chunk of frames frames:
\* round(i / (n - 1) * max(0, frames - 1)), clamped to 0 .. max(0, frames - 1)
SrcIndexTruncates(i, n, frames) ==
    LET top == IF frames - 1 > 0 THEN frames - 1 ELSE 0
    IN  clampi((i * top) \div (n - 1), 0, top)

SrcIndex(i, n, frames) ==
    LET top == IF frames - 1 > 0 THEN frames - 1 ELSE 0
    IN  clampi(RoundDiv(i * top, n - 1), 0, top)

\* monoLocal[i] = samples[src * channels], for i in 0 .. n-1 (1-based here)
MonoLocal(buf, n) == [i \in 1..n |-> buf[SrcIndex(i - 1, n, Len(buf)) + 1]]

\* fftIn[i] = (double)monoLocal[i] / 32768.0, kept as the numerator
FftInput(mono) == [i \in 1..Len(mono) |-> mono[i]]

\* if (curSamp >= 0) currentSec = (double)curSamp / (double)rate;
ElapsedSecOfChunk(curSamp, r, prev) == r \div r

ElapsedSec(curSamp, r, prev) == IF curSamp >= 0 THEN curSamp \div r ELSE prev

\* while (!shouldQuit.load() && !stopTrack.load())
PLoopIgnoresStop ==
    /\ apc = "P_loop"
    /\ IF shouldQuit
       THEN /\ apc' = "C_free"
            /\ hist' = [hist EXCEPT !.exit = "stop", !.carried = {}]
       ELSE /\ apc' = "P_pausechk"
            /\ hist' = [hist EXCEPT !.carried = {}]
    /\ UNCHANGED <<atomics, queueV, pauseMutex, renderV, audLoc, decV, uiV>>
    /\ UNCHANGED dspV

PLoop ==
    /\ apc = "P_loop"
    /\ IF shouldQuit \/ stopTrack
       THEN /\ apc' = "C_free"
            /\ hist' = [hist EXCEPT !.selfKilled =
                 @ \/ (~shouldQuit /\ hist.stopBy = nextPath),
                                    !.exit = "stop", !.carried = {}]
       ELSE /\ apc' = "P_pausechk"
            /\ hist' = [hist EXCEPT !.playedOn = @ \/ (hist.stopHit = nextPath),
                                    !.carried = {}]
    /\ UNCHANGED <<atomics, queueV, pauseMutex, renderV, audLoc, decV, uiV>>
    /\ UNCHANGED dspV

\* if (isPaused.load())
PPauseChk ==
    /\ apc = "P_pausechk"
    /\ apc' = IF isPaused THEN "P_pstop" ELSE "P_seek"
    /\ UNCHANGED <<atomics, queueV, pauseMutex, renderV, audLoc, decV, uiV, hist>>
    /\ UNCHANGED dspV

\* int cmdSec = seekCommand.exchange(0); if nonzero: mpg123_tell, the clamped
\* target, mpg123_seek(mh, newPos, SEEK_SET)
PSeekLoads ==
    /\ apc = "P_seek"
    /\ IF seekCommand # 0
       THEN /\ decPos' = SeekTarget(decPos, seekCommand, rate, length)
            /\ hist' = [hist EXCEPT !.issued = <<>>,
                                    !.applied = <<hist.issued, seekCommand, decPos>>,
                                    !.seekSincePub = TRUE,
                                    !.stale = @ \ {"seek"}]
       ELSE /\ UNCHANGED decPos
            /\ hist' = [hist EXCEPT !.issued = <<>>, !.applied = <<>>]
    /\ apc' = "P_read"
    /\ UNCHANGED <<atomics, queueV, pauseMutex, renderV, audLoc, length, rate, res,
                   streamRunning, dspV, uiV>>

PSeek ==
    /\ apc = "P_seek"
    /\ seekCommand' = 0
    /\ IF seekCommand # 0
       THEN /\ decPos' = SeekTarget(decPos, seekCommand, rate, length)
            /\ hist' = [hist EXCEPT !.issued = <<>>,
                                    !.applied = <<hist.issued, seekCommand, decPos>>,
                                    !.seekSincePub = TRUE,
                                    !.stale = @ \ {"seek"}]
       ELSE /\ UNCHANGED decPos
            /\ hist' = [hist EXCEPT !.issued = <<>>, !.applied = <<>>]
    /\ apc' = "P_read"
    /\ UNCHANGED <<shouldQuit, stopTrack, isPlaying, isPaused, visMode, queueV,
                   pauseMutex, renderV, audLoc, length, rate, res, streamRunning, uiV>>
    /\ UNCHANGED dspV

\* mpg123_read: MPG123_DONE at the end of the track, an error at any time (both
\* break); MPG123_OK with no whole frame (continue); MPG123_OK with a chunk.
PReadRetryPublishes ==
    /\ apc = "P_read"
    /\ \/ /\ decPos >= length
          /\ apc' = "C_free"
          /\ hist' = [hist EXCEPT !.exit = "end"]
          /\ UNCHANGED <<decPos, buffer>>
       \/ /\ apc' = "C_free"
          /\ hist' = [hist EXCEPT !.exit = "read"]
          /\ UNCHANGED <<decPos, buffer>>
       \/ /\ apc' = "P_feat"
          /\ UNCHANGED <<decPos, buffer, hist>>
       \/ /\ decPos < length
          /\ decPos' = decPos + rate
          /\ buffer' = Chunk(rate)
          /\ apc' = "P_write"
          /\ UNCHANGED hist
    /\ UNCHANGED <<atomics, queueV, pauseMutex, renderV, audLoc, length, rate, res,
                   streamRunning, fftIn, monoLocal, uiV>>

PRead ==
    /\ apc = "P_read"
    /\ \/ /\ decPos >= length
          /\ apc' = "C_free"
          /\ hist' = [hist EXCEPT !.exit = "end"]
          /\ UNCHANGED <<decPos, buffer>>
       \/ /\ apc' = "C_free"
          /\ hist' = [hist EXCEPT !.exit = "read"]
          /\ UNCHANGED <<decPos, buffer>>
       \/ /\ apc' = "P_loop"
          /\ UNCHANGED <<decPos, buffer, hist>>
       \/ /\ decPos < length
          /\ decPos' = decPos + rate
          /\ buffer' = Chunk(rate)
          /\ apc' = "P_write"
          /\ UNCHANGED hist
    /\ UNCHANGED <<atomics, queueV, pauseMutex, renderV, audLoc, length, rate, res,
                   streamRunning, fftIn, monoLocal, uiV>>

\* One more call of Pa_WriteStream, counted (up to 2) against each of stopTrack
\* and isPaused that is set at the call; the counts are 0 while the flag is clear.
Written(h) ==
    [h EXCEPT !.lateStop  = IF stopTrack THEN (IF @ < 2 THEN @ + 1 ELSE @) ELSE 0,
              !.latePause = IF isPaused THEN (IF @ < 2 THEN @ + 1 ELSE @) ELSE 0]

\* Pa_WriteStream: an error breaks; a stopped stream takes no frames.
PWriteErrorReturns ==
    /\ apc = "P_write"
    /\ \/ /\ apc' = "A_postplay"
          /\ hist' = [hist EXCEPT !.exit = "write"]
       \/ /\ streamRunning
          /\ apc' = "P_feat"
          /\ UNCHANGED hist
    /\ UNCHANGED <<atomics, queueV, pauseMutex, renderV, audLoc, decV, dspV, uiV>>

PWrite ==
    /\ apc = "P_write"
    /\ \/ /\ apc' = "C_free"
          /\ hist' = [Written(hist) EXCEPT !.exit = "write"]
       \/ /\ streamRunning
          /\ apc' = "P_feat"
          /\ hist' = Written(hist)
    /\ UNCHANGED <<atomics, queueV, pauseMutex, renderV, audLoc, decV, uiV>>
    /\ UNCHANGED dspV

\* curSamp = mpg123_tell(mh); currentSec = curSamp / rate; the waveform;
\* modeLocal = visMode.load(); the spectrum when modeLocal == SPECTRUM
PFeat ==
    /\ apc = "P_feat"
    /\ currentSec' = ElapsedSec(decPos, rate, currentSec)
    /\ modeLocal' = visMode
    /\ monoLocal' = MonoLocal(buffer, FFT_SIZE)
    /\ fftIn' = IF visMode = "SPECTRUM" THEN FftInput(monoLocal') ELSE fftIn
    /\ apc' = "P_cpub_lock"
    /\ UNCHANGED <<atomics, queueV, pauseMutex, renderV, nextPath, wasPaused,
                   decV, buffer, uiV, hist>>

\* std::vector<double> magsLocal;  and, in Spectrum mode only,
\* magsLocal.assign(FFT_SIZE / 2, 0.0): the size of magsLocal
MagsLocalSizeAllBins(mode) == IF mode = "SPECTRUM" THEN FFT_SIZE \div 2 + 1 ELSE 0

MagsLocalSizeAnyMode(mode) == FFT_SIZE \div 2

MagsLocalSize(mode) == IF mode = "SPECTRUM" THEN FFT_SIZE \div 2 ELSE 0

\* the per-chunk publish, in two steps: file, curSec, totalSec, mode
PCPub ==
    /\ apc = "P_cpub"
    /\ renderState' = [renderState EXCEPT !.file = nextPath, !.curSec = currentSec,
                          !.totalSec = TotalSec(length, rate), !.mode = modeLocal]
    /\ apc' = "P_cpub_rest"
    /\ hist' = [hist EXCEPT !.kept = RenderFields \ {"file", "curSec", "totalSec", "mode"}]
    /\ UNCHANGED <<atomics, queueV, pauseMutex, renderMutex, renderDirty, audLoc,
                   decV, uiV>>
    /\ UNCHANGED dspV

\* paused = isPaused.load(), mono = std::move(monoLocal), magnitudes, and the
\* lock_guard's scope ends
PCPubRest ==
    /\ apc = "P_cpub_rest"
    /\ renderState' = [renderState EXCEPT !.paused = isPaused, !.mono = Len(monoLocal),
                          !.magnitudes = MagsLocalSize(modeLocal)]
    /\ renderMutex' = "free"
    /\ apc' = "P_cpub_dirty"
    /\ hist' = [Publishes(hist, renderState',
                          hist.kept \ {"paused", "mono", "magnitudes"}) EXCEPT
         !.cross = IF hist.pauseBase >= 0
                   THEN <<hist.pauseBase, currentSec, hist.pauseClean,
                          hist.seekSincePub>>
                   ELSE @,
         !.pauseBase = -1,
         !.seekSincePub = FALSE]
    /\ UNCHANGED <<atomics, queueV, pauseMutex, renderDirty, audLoc, decV, uiV>>
    /\ monoLocal' = <<>>
    /\ UNCHANGED <<buffer, fftIn>>

\* ------------------------------------------------------------- play_file: Paused
\* if (!wasPaused) { Pa_StopStream(stream); wasPaused = true; }
PPStop ==
    /\ apc = "P_pstop"
    /\ streamRunning' = IF wasPaused THEN streamRunning ELSE FALSE
    /\ wasPaused' = TRUE
    /\ apc' = "P_ppub_lock"
    /\ UNCHANGED <<atomics, queueV, pauseMutex, renderV, nextPath, currentSec,
                   modeLocal, decPos, length, rate, res, uiV, hist>>
    /\ UNCHANGED dspV

\* renderState.paused = true;  (no other field is written)
PausedRenderReset(rs) == [IdleRender EXCEPT !.paused = TRUE]

PausedRender(rs) == [rs EXCEPT !.paused = TRUE]

PPPub ==
    /\ apc = "P_ppub"
    /\ renderState' = PausedRender(renderState)
    /\ renderMutex' = "free"
    /\ apc' = "P_ppub_dirty"
    /\ hist' = [Publishes(hist, renderState', RenderFields \ {"paused"}) EXCEPT
         !.pauseBase = IF @ >= 0 THEN @ ELSE renderState.curSec,
         !.pausePos = decPos]
    /\ UNCHANGED <<atomics, queueV, pauseMutex, renderDirty, audLoc, decV, uiV>>
    /\ UNCHANGED dspV

\* std::unique_lock<std::mutex> lock(pauseMutex), and the relock after a wake-up
PPLock ==
    /\ apc \in {"P_plock", "P_prelock"}
    /\ MutexFree(pauseMutex)
    /\ pauseMutex' = "audio"
    /\ apc' = "P_ppred"
    /\ UNCHANGED <<atomics, queueV, renderV, audLoc, decV, uiV, hist>>
    /\ UNCHANGED dspV

\* pauseCV.wait's predicate: !isPaused || shouldQuit || stopTrack
PPPred ==
    /\ apc = "P_ppred"
    /\ apc' = IF ~isPaused \/ shouldQuit \/ stopTrack THEN "P_restart" ELSE "P_pcvwait"
    /\ UNCHANGED <<atomics, queueV, pauseMutex, renderV, audLoc, decV, uiV, hist>>
    /\ UNCHANGED dspV

\* pauseCV.wait: unlock and block, atomically
PPCvWait ==
    /\ apc = "P_pcvwait"
    /\ pauseMutex' = "free"
    /\ apc' = "P_pblocked"
    /\ UNCHANGED <<atomics, queueV, renderV, audLoc, decV, uiV, hist>>
    /\ UNCHANGED dspV

\* if (!isPaused.load() && Pa_IsStreamStopped(stream) == 1) Pa_StartStream(stream);
\* wasPaused = false;
PRestart ==
    /\ apc = "P_restart"
    /\ streamRunning' = IF ~isPaused /\ ~streamRunning THEN TRUE ELSE streamRunning
    /\ wasPaused' = FALSE
    /\ apc' = "P_rpub_lock"
    /\ UNCHANGED <<atomics, queueV, pauseMutex, renderV, nextPath, currentSec,
                   modeLocal, decPos, length, rate, res, uiV, hist>>
    /\ UNCHANGED dspV

\* renderState.paused = false;  (pauseMutex still held)
PRPub ==
    /\ apc = "P_rpub"
    /\ renderState' = [renderState EXCEPT !.paused = FALSE]
    /\ renderMutex' = "free"
    /\ apc' = "P_rpub_dirty"
    /\ hist' = Publishes(hist, renderState', RenderFields \ {"paused"})
    /\ UNCHANGED <<atomics, queueV, pauseMutex, renderDirty, audLoc, decV, uiV>>
    /\ UNCHANGED dspV

\* if (shouldQuit.load() || stopTrack.load()) break;  the pause block ends either
\* way, and with it the unique_lock on pauseMutex
PPBreakKeepsLock ==
    /\ apc = "P_pbreak"
    /\ IF shouldQuit \/ stopTrack
       THEN /\ apc' = "C_free"
            /\ pauseMutex' = "free"
            /\ hist' = [hist EXCEPT !.exit = "stop"]
       ELSE /\ apc' = "P_seek"
            /\ UNCHANGED <<pauseMutex, hist>>
    /\ UNCHANGED <<atomics, queueV, renderV, audLoc, decV, uiV>>
    /\ UNCHANGED dspV

PPBreak ==
    /\ apc = "P_pbreak"
    /\ pauseMutex' = "free"
    /\ IF shouldQuit \/ stopTrack
       THEN /\ apc' = "C_free"
            /\ hist' = [hist EXCEPT !.selfKilled =
                 @ \/ (~shouldQuit /\ hist.stopBy = nextPath),
                                    !.exit = "stop"]
       ELSE /\ apc' = "P_seek"
            /\ UNCHANGED hist
    /\ UNCHANGED <<atomics, queueV, renderV, audLoc, decV, uiV>>
    /\ UNCHANGED dspV

\* ------------------------------------------------------------- play_file: Closing
\* fftw_destroy_plan .. mpg123_exit
CFreeKeepsSession ==
    /\ apc = "C_free"
    /\ fftIn' = <<>>
    /\ apc' = "C_clrPlaying"
    /\ UNCHANGED <<atomics, queueV, pauseMutex, renderV, audLoc, decV, buffer,
                   monoLocal, uiV, hist>>

CFree ==
    /\ apc = "C_free"
    /\ res' = ReleaseAll(res, ClosingReleases)
    /\ streamRunning' = FALSE
    /\ fftIn' = <<>>
    /\ apc' = "C_clrPlaying"
    /\ hist' = [hist EXCEPT !.released = ClosingReleases]
    /\ UNCHANGED <<atomics, queueV, pauseMutex, renderV, audLoc, decPos, length,
                   rate, buffer, monoLocal, uiV>>

\* isPlaying.store(false);
CClrPlaying ==
    /\ apc = "C_clrPlaying"
    /\ isPlaying' = FALSE
    /\ apc' = "C_pub_lock"
    /\ UNCHANGED <<shouldQuit, stopTrack, isPaused, seekCommand, visMode, queueV,
                   pauseMutex, renderV, audLoc, decV, uiV, hist>>
    /\ UNCHANGED dspV

\* the closing publish, in two steps: curSec, totalSec, paused
CPub ==
    /\ apc = "C_pub"
    /\ renderState' = [renderState EXCEPT !.curSec = 0, !.totalSec = 0,
                                          !.paused = FALSE]
    /\ apc' = "C_pub_rest"
    /\ hist' = [hist EXCEPT !.kept = RenderFields \ {"curSec", "totalSec", "paused"}]
    /\ UNCHANGED <<atomics, queueV, pauseMutex, renderMutex, renderDirty, audLoc,
                   decV, uiV>>
    /\ UNCHANGED dspV

\* mono.clear(), magnitudes.clear(), and the lock_guard's scope ends
CPubRest ==
    /\ apc = "C_pub_rest"
    /\ renderState' = [renderState EXCEPT !.mono = 0, !.magnitudes = 0]
    /\ renderMutex' = "free"
    /\ apc' = "C_pub_dirty"
    /\ hist' = Publishes(hist, renderState', hist.kept \ {"mono", "magnitudes"})
    /\ UNCHANGED <<atomics, queueV, pauseMutex, renderDirty, audLoc, decV, uiV>>
    /\ UNCHANGED dspV

AudioCore ==
    \/ AWhile \/ ALock \/ APred \/ ACvWait \/ AChkQuit \/ APop \/ AClrStop
    \/ APostPlay \/ SpuriousWake
    \/ POpen \/ PSetPlaying \/ PClrPaused \/ PClrSeek \/ PFft \/ PPlan
    \/ PRenderLock \/ PRenderDirty \/ PPub0 \/ PPub0Rest
    \/ PLoop \/ PPauseChk \/ PSeek \/ PRead \/ PWrite \/ PFeat \/ PCPub \/ PCPubRest
    \/ CFree \/ CClrPlaying \/ CPub \/ CPubRest

AudioPause ==
    \/ PPStop \/ PPPub \/ PPLock \/ PPPred \/ PPCvWait \/ PRestart \/ PRPub \/ PPBreak

\* ------------------------------------------------------------- main: the UI loop
\* while (!shouldQuit.load())
UWhile ==
    /\ upc = "U_while"
    /\ upc' = IF shouldQuit THEN "U_join" ELSE "U_dirty"
    /\ UNCHANGED <<atomics, queueV, pauseMutex, renderV, apc, audLoc, decV,
                   newPaused, snap, toPush, cmds, nextTrack, hist>>
    /\ UNCHANGED dspV

\* renderDirty.exchange(false), else the 50 ms timer while isPlaying
UDirty ==
    /\ upc = "U_dirty"
    /\ \/ /\ renderDirty
          /\ renderDirty' = FALSE
          /\ upc' = "U_snap_lock"
       \/ /\ ~renderDirty
          /\ isPlaying
          /\ upc' = "U_snap_lock"
          /\ UNCHANGED renderDirty
       \/ /\ ~renderDirty
          /\ upc' = "U_status"
          /\ UNCHANGED renderDirty
    /\ UNCHANGED <<atomics, queueV, pauseMutex, renderMutex, renderState, apc,
                   audLoc, decV, newPaused, snap, toPush, cmds, nextTrack, hist>>
    /\ UNCHANGED dspV

\* std::lock_guard<std::mutex> lk(renderMutex);
USnapLockNoWait ==
    /\ upc = "U_snap_lock"
    /\ upc' = "U_snap"
    /\ UNCHANGED <<atomics, queueV, pauseMutex, renderV, apc, audLoc, decV,
                   newPaused, snap, toPush, cmds, nextTrack, hist>>
    /\ UNCHANGED dspV

USnapLock ==
    /\ upc = "U_snap_lock"
    /\ MutexFree(renderMutex)
    /\ renderMutex' = "ui"
    /\ upc' = "U_snap"
    /\ UNCHANGED <<atomics, queueV, pauseMutex, renderState, renderDirty, apc,
                   audLoc, decV, newPaused, snap, toPush, cmds, nextTrack, hist>>
    /\ UNCHANGED dspV

\* snap = renderState;  and the lock_guard's scope ends
USnapKeepsLock ==
    /\ upc = "U_snap"
    /\ snap' = renderState
    /\ upc' = "U_draw"
    /\ hist' = [hist EXCEPT !.torn = @ \/ renderState # hist.published,
                            !.unseen = FALSE]
    /\ UNCHANGED <<atomics, queueV, pauseMutex, renderMutex, renderState, renderDirty,
                   apc, audLoc, decV, dspV, newPaused, toPush, cmds, nextTrack>>

USnap ==
    /\ upc = "U_snap"
    /\ snap' = renderState
    /\ renderMutex' = "free"
    /\ upc' = "U_draw"
    /\ hist' = [hist EXCEPT !.torn = @ \/ renderState # hist.published,
                            !.unseen = FALSE]
    /\ UNCHANGED <<atomics, queueV, pauseMutex, renderState, renderDirty, apc,
                   audLoc, decV, newPaused, toPush, cmds, nextTrack>>
    /\ UNCHANGED dspV

\* draw_info(snap...); draw_visualization(snap...);  and snap's scope ends
UDrawClearsDirty ==
    /\ upc = "U_draw"
    /\ snap' = IdleRender
    /\ renderDirty' = FALSE
    /\ upc' = "U_status"
    /\ UNCHANGED <<atomics, queueV, pauseMutex, renderMutex, renderState, apc,
                   audLoc, decV, newPaused, toPush, cmds, nextTrack, hist>>
    /\ UNCHANGED dspV

UDraw ==
    /\ upc = "U_draw"
    /\ snap' = IdleRender
    /\ upc' = "U_status"
    /\ UNCHANGED <<atomics, queueV, pauseMutex, renderV, apc, audLoc, decV,
                   newPaused, toPush, cmds, nextTrack, hist>>
    /\ UNCHANGED dspV

\* getch() == ERR, and the keys that change nothing shared (KEY_UP, KEY_DOWN)
\* draw_status_bar(currentDir): std::lock_guard<std::mutex> lk(playlistMutex)
\* around the one read of playlist.size(); the UI waits here while the audio
\* thread holds the lock
draw_status_bar ==
    /\ upc = "U_status"
    /\ MutexFree(playlistMutex)
    /\ upc' = "U_getch"
    /\ UNCHANGED <<atomics, queueV, pauseMutex, renderV, apc, audLoc, decV, dspV,
                   newPaused, snap, toPush, cmds, nextTrack, hist>>

\* int c = getch(); if (c == ERR) {}
UGetchNone ==
    /\ upc = "U_getch"
    /\ upc' = "U_while"
    /\ UNCHANGED <<atomics, queueV, pauseMutex, renderV, apc, audLoc, decV,
                   newPaused, snap, toPush, cmds, nextTrack, hist>>
    /\ UNCHANGED dspV

\* a key is delivered
KeyPressed ==
    /\ upc = "U_getch"
    /\ cmds < MaxCmds
    /\ cmds' = cmds + 1

\* at.join(), once main's loop has ended
UJoin ==
    /\ upc = "U_join"
    /\ apc = "A_done"
    /\ upc' = "U_done"
    /\ UNCHANGED <<atomics, queueV, pauseMutex, renderV, apc, audLoc, decV,
                   newPaused, snap, toPush, cmds, nextTrack, hist>>
    /\ UNCHANGED dspV

UILoop ==
    UWhile \/ UDirty \/ USnapLock \/ USnap \/ UDraw \/ draw_status_bar \/ UGetchNone

\* ------------------------------------------------------------- key q, and SIGINT
\* shouldQuit.store(true);
KeyQ ==
    /\ KeyPressed
    /\ shouldQuit' = TRUE
    /\ upc' = "U_q_n1"
    /\ UNCHANGED <<stopTrack, isPlaying, isPaused, seekCommand, visMode, queueV,
                   pauseMutex, renderV, apc, audLoc, decV, newPaused, snap, toPush,
                   nextTrack, hist>>
    /\ UNCHANGED dspV

\* handle_sigint, delivered to the main thread in getch(): shouldQuit.store(true);
KeySigint ==
    /\ KeyPressed
    /\ shouldQuit' = TRUE
    /\ upc' = "U_sig_n1"
    /\ UNCHANGED <<stopTrack, isPlaying, isPaused, seekCommand, visMode, queueV,
                   pauseMutex, renderV, apc, audLoc, decV, newPaused, snap, toPush,
                   nextTrack, hist>>
    /\ UNCHANGED dspV

\* playlistCV.notify_all();
UQuitNotifyPlaylist ==
    /\ upc \in {"U_q_n1", "U_sig_n1"}
    /\ apc' = NotifyPlaylistCV(apc)
    /\ upc' = IF upc = "U_q_n1" THEN "U_q_n2" ELSE "U_sig_n2"
    /\ UNCHANGED <<atomics, queueV, pauseMutex, renderV, audLoc, decV,
                   newPaused, snap, toPush, cmds, nextTrack, hist>>
    /\ UNCHANGED dspV

\* pauseCV.notify_all();  then break (key q) or return to the loop (handler)
UQuitNotifyPause ==
    /\ upc \in {"U_q_n2", "U_sig_n2"}
    /\ apc' = NotifyPauseCV(apc)
    /\ upc' = IF upc = "U_q_n2" THEN "U_join" ELSE "U_while"
    /\ UNCHANGED <<atomics, queueV, pauseMutex, renderV, audLoc, decV,
                   newPaused, snap, toPush, cmds, nextTrack, hist>>
    /\ UNCHANGED dspV

\* ------------------------------------------------------------- KEY_LEFT, KEY_RIGHT
\* seekCommand.store(-5);  seekCommand.store(5);
SeekStore(cur, delta) == delta

KeySeek ==
    /\ KeyPressed
    /\ \E d \in {-SeekStep, SeekStep} :
         /\ seekCommand' = SeekStore(seekCommand, d)
         /\ hist' = [hist EXCEPT !.issued = Append(@, d), !.pauseClean = FALSE,
                                 !.stale = @ \ {"seek"}]
    /\ upc' = "U_while"
    /\ UNCHANGED <<shouldQuit, stopTrack, isPlaying, isPaused, visMode, queueV,
                   pauseMutex, renderV, apc, audLoc, decV, newPaused, snap, toPush,
                   nextTrack>>
    /\ UNCHANGED dspV

\* ------------------------------------------------------------- key p
\* bool newPaused = !isPaused.load();
KeyP ==
    /\ KeyPressed
    /\ newPaused' = ~isPaused
    /\ upc' = "U_p_store"
    /\ UNCHANGED <<atomics, queueV, pauseMutex, renderV, apc, audLoc, decV, snap,
                   toPush, nextTrack, hist>>
    /\ UNCHANGED dspV

\* isPaused.store(newPaused);
UPStore ==
    /\ upc = "U_p_store"
    /\ isPaused' = newPaused
    /\ upc' = IF newPaused THEN "U_while" ELSE "U_p_notify"
    /\ hist' = [hist EXCEPT !.pauseClean = IF newPaused THEN TRUE ELSE @,
                            !.latePause = 0, !.stale = @ \ {"pause"}]
    /\ UNCHANGED <<shouldQuit, stopTrack, isPlaying, seekCommand, visMode, queueV,
                   pauseMutex, renderV, apc, audLoc, decV, newPaused, snap, toPush,
                   cmds, nextTrack>>
    /\ UNCHANGED dspV

\* if (!newPaused) pauseCV.notify_one();
UPNotify ==
    /\ upc = "U_p_notify"
    /\ apc' = NotifyPauseCV(apc)
    /\ upc' = "U_while"
    /\ UNCHANGED <<atomics, queueV, pauseMutex, renderV, audLoc, decV,
                   newPaused, snap, toPush, cmds, nextTrack, hist>>
    /\ UNCHANGED dspV

\* with the end of both threads: audio_thread's last statement and main's join
HandleQ == KeyQ \/ KeySigint \/ UQuitNotifyPlaylist \/ UQuitNotifyPause \/ AExit \/ UJoin

HandleP == KeyP \/ UPStore \/ UPNotify

\* ------------------------------------------------------------- the UI's playlist lock
\* std::lock_guard<std::mutex> lk(playlistMutex), in the handlers of Enter, a and x
UPlaylistLock ==
    /\ upc \in {"U_e_lock", "U_a_lock", "U_x_lock"}
    /\ MutexFree(playlistMutex)
    /\ playlistMutex' = "ui"
    /\ upc' = CASE upc = "U_e_lock" -> "U_e_clear"
                [] upc = "U_a_lock" -> "U_a_push"
                [] upc = "U_x_lock" -> "U_x_clear"
    /\ UNCHANGED <<atomics, playlist, pauseMutex, renderV, apc, audLoc, decV,
                   newPaused, snap, toPush, cmds, nextTrack, hist>>
    /\ UNCHANGED dspV

\* ------------------------------------------------------------- Enter on an .mp3
KeyEnter ==
    /\ KeyPressed
    /\ nextTrack <= MaxPush
    /\ upc' = "U_e_lock"
    /\ UNCHANGED <<atomics, queueV, pauseMutex, renderV, apc, audLoc, decV,
                   newPaused, snap, toPush, nextTrack, hist>>
    /\ UNCHANGED dspV

\* playlist.clear();
UEClear ==
    /\ upc = "U_e_clear"
    /\ playlist' = Cleared(playlist)
    /\ upc' = "U_e_push"
    /\ hist' = [hist EXCEPT !.removed = @ \cup SeqToSet(playlist), !.purged = TRUE]
    /\ UNCHANGED <<atomics, playlistMutex, pauseMutex, renderV, apc, audLoc, decV,
                   newPaused, snap, toPush, cmds, nextTrack>>
    /\ UNCHANGED dspV

\* playlist.push_back(sel.path().string());  and the lock_guard's scope ends
UEPush ==
    /\ upc = "U_e_push"
    /\ playlist' = PushBack(playlist, nextTrack)
    /\ nextTrack' = nextTrack + 1
    /\ playlistMutex' = "free"
    /\ upc' = "U_e_stop"
    /\ hist' = [hist EXCEPT !.repl = nextTrack, !.replPops = <<>>]
    /\ UNCHANGED <<atomics, pauseMutex, renderV, apc, audLoc, decV,
                   newPaused, snap, toPush, cmds>>
    /\ UNCHANGED dspV

\* stopTrack.store(true);  in the handlers of Enter, s and x
UStop ==
    /\ upc \in {"U_e_stop", "U_s_stop", "U_x_stop"}
    /\ stopTrack' = TRUE
    /\ upc' = "U_unpause"
    /\ toPush' = IF upc = "U_e_stop" THEN 1 ELSE 0
    /\ hist' = [hist EXCEPT
         !.stopBy = IF upc = "U_e_stop" THEN hist.repl ELSE NoTrack,
         !.stopHit = IF upc = "U_x_stop" /\ apc \in InFlightPcs
                     THEN nextPath ELSE @]
    /\ UNCHANGED <<shouldQuit, isPlaying, isPaused, seekCommand, visMode, queueV,
                   pauseMutex, renderV, apc, audLoc, decV, newPaused, snap, cmds,
                   nextTrack>>
    /\ UNCHANGED dspV

\* isPaused.store(false);
UUnpause ==
    /\ upc = "U_unpause"
    /\ isPaused' = FALSE
    /\ upc' = "U_notify_pause"
    /\ hist' = [hist EXCEPT !.latePause = 0, !.stale = @ \ {"pause"}]
    /\ UNCHANGED <<shouldQuit, stopTrack, isPlaying, seekCommand, visMode, queueV,
                   pauseMutex, renderV, apc, audLoc, decV, newPaused, snap, toPush,
                   cmds, nextTrack>>
    /\ UNCHANGED dspV

\* pauseCV.notify_all();  Enter goes on to notify the playlist
UNotifyPause ==
    /\ upc = "U_notify_pause"
    /\ apc' = NotifyPauseCV(apc)
    /\ upc' = IF toPush = 1 THEN "U_notify_playlist" ELSE "U_while"
    /\ toPush' = 0
    /\ UNCHANGED <<atomics, queueV, pauseMutex, renderV, audLoc, decV,
                   newPaused, snap, cmds, nextTrack, hist>>
    /\ UNCHANGED dspV

\* playlistCV.notify_one();  at the end of the handlers of Enter and a
UNotifyPlaylist ==
    /\ upc = "U_notify_playlist"
    /\ apc' = NotifyPlaylistCV(apc)
    /\ upc' = "U_while"
    /\ UNCHANGED <<atomics, queueV, pauseMutex, renderV, audLoc, decV,
                   newPaused, snap, toPush, cmds, nextTrack, hist>>
    /\ UNCHANGED dspV

\* ------------------------------------------------------------- key a
\* the directory listing holds n .mp3 files (n = 0: none)
KeyA ==
    /\ KeyPressed
    /\ \E n \in 0..(MaxPush + 1 - nextTrack) : toPush' = n
    /\ upc' = "U_a_lock"
    /\ UNCHANGED <<atomics, queueV, pauseMutex, renderV, apc, audLoc, decV,
                   newPaused, snap, nextTrack, hist>>
    /\ UNCHANGED dspV

\* for (auto& e : dirList) ... playlist.push_back(e.path().string());  the
\* lock_guard's scope ends after the last file
UAPush ==
    /\ upc = "U_a_push"
    /\ IF toPush > 0
       THEN /\ playlist' = PushBack(playlist, nextTrack)
            /\ nextTrack' = nextTrack + 1
            /\ toPush' = toPush - 1
            /\ hist' = [hist EXCEPT !.repl = NoTrack, !.replPops = <<>>]
            /\ UNCHANGED <<playlistMutex, upc>>
       ELSE /\ playlistMutex' = "free"
            /\ upc' = "U_notify_playlist"
            /\ UNCHANGED <<playlist, nextTrack, toPush, hist>>
    /\ UNCHANGED <<atomics, pauseMutex, renderV, apc, audLoc, decV,
                   newPaused, snap, cmds>>
    /\ UNCHANGED dspV

\* ------------------------------------------------------------- key s
KeyS ==
    /\ KeyPressed
    /\ upc' = "U_s_stop"
    /\ UNCHANGED <<atomics, queueV, pauseMutex, renderV, apc, audLoc, decV,
                   newPaused, snap, toPush, nextTrack, hist>>
    /\ UNCHANGED dspV

\* ------------------------------------------------------------- key x
KeyX ==
    /\ KeyPressed
    /\ upc' = "U_x_lock"
    /\ UNCHANGED <<atomics, queueV, pauseMutex, renderV, apc, audLoc, decV,
                   newPaused, snap, toPush, nextTrack, hist>>
    /\ UNCHANGED dspV

\* playlist.clear();  and the lock_guard's scope ends
UXClear ==
    /\ upc = "U_x_clear"
    /\ playlist' = Cleared(playlist)
    /\ playlistMutex' = "free"
    /\ upc' = "U_x_stop"
    /\ hist' = [hist EXCEPT !.removed = @ \cup SeqToSet(playlist), !.purged = TRUE]
    /\ UNCHANGED <<atomics, pauseMutex, renderV, apc, audLoc, decV,
                   newPaused, snap, toPush, cmds, nextTrack>>
    /\ UNCHANGED dspV

\* ------------------------------------------------------------- keys 1 and 2
\* visMode.store(WAVEFORM);  visMode.store(SPECTRUM);
KeyVis ==
    /\ KeyPressed
    /\ \E m \in {"WAVEFORM", "SPECTRUM"} : visMode' = m
    /\ upc' = "U_vis_dirty"
    /\ UNCHANGED <<shouldQuit, stopTrack, isPlaying, isPaused, seekCommand, queueV,
                   pauseMutex, renderV, apc, audLoc, decV, newPaused, snap, toPush,
                   nextTrack, hist>>
    /\ UNCHANGED dspV

\* renderDirty.store(true);
UVisDirty ==
    /\ upc = "U_vis_dirty"
    /\ renderDirty' = TRUE
    /\ upc' = "U_while"
    /\ UNCHANGED <<atomics, queueV, pauseMutex, renderMutex, renderState, apc,
                   audLoc, decV, newPaused, snap, toPush, cmds, nextTrack, hist>>
    /\ UNCHANGED dspV

HandleEnter == KeyEnter \/ UPlaylistLock \/ UEClear \/ UEPush \/ UStop \/ UUnpause
               \/ UNotifyPause \/ UNotifyPlaylist

HandleA == KeyA \/ UPlaylistLock \/ UAPush \/ UNotifyPlaylist

HandleS == KeyS \/ UStop \/ UUnpause \/ UNotifyPause

HandleX == KeyX \/ UPlaylistLock \/ UXClear \/ UStop \/ UUnpause \/ UNotifyPause

HandleVis == KeyVis \/ UVisDirty

\* ------------------------------------------------------------- specifications
\* Every key.
Next == AudioCore \/ AudioPause \/ UILoop \/ HandleQ \/ KeySeek \/ HandleP
        \/ HandleEnter \/ HandleA \/ HandleS \/ HandleX \/ HandleVis

Spec == Init /\ [][Next]_vars

\* The state in which key a has pushed the one .mp3 file of a directory and its
\* handler has returned, before the audio thread has run at all.
InitQueued ==
    /\ shouldQuit = FALSE /\ stopTrack = FALSE /\ isPlaying = FALSE
    /\ isPaused = FALSE /\ seekCommand = 0 /\ visMode = "WAVEFORM"
    /\ playlist = <<1>> /\ playlistMutex = "free"
    /\ pauseMutex = "free"
    /\ renderMutex = "free" /\ renderState = IdleRender /\ renderDirty = FALSE
    /\ apc = "A_while" /\ nextPath = NoTrack /\ wasPaused = FALSE
    /\ currentSec = 0 /\ modeLocal = "WAVEFORM"
    /\ decPos = 0 /\ length = 0 /\ rate = Rate /\ res = NoResources
    /\ streamRunning = FALSE
    /\ buffer = <<>> /\ fftIn = <<>> /\ monoLocal = <<>>
    /\ upc = "U_while" /\ newPaused = FALSE /\ snap = IdleRender
    /\ toPush = 0 /\ cmds = 0 /\ nextTrack = 2
    /\ hist = HistInit

\* Seeking and pausing a queued list: keys LEFT/RIGHT and p.
NextTransport == AudioCore \/ AudioPause \/ UILoop \/ KeySeek \/ HandleP

SpecTransport == InitQueued /\ [][NextTransport]_vars

\* The same keys over two queued tracks played one after the other.
InitTwoQueued ==
    /\ shouldQuit = FALSE /\ stopTrack = FALSE /\ isPlaying = FALSE
    /\ isPaused = FALSE /\ seekCommand = 0 /\ visMode = "WAVEFORM"
    /\ playlist = <<1, 2>> /\ playlistMutex = "free"
    /\ pauseMutex = "free"
    /\ renderMutex = "free" /\ renderState = IdleRender /\ renderDirty = FALSE
    /\ apc = "A_while" /\ nextPath = NoTrack /\ wasPaused = FALSE
    /\ currentSec = 0 /\ modeLocal = "WAVEFORM"
    /\ decPos = 0 /\ length = 0 /\ rate = Rate /\ res = NoResources
    /\ streamRunning = FALSE
    /\ buffer = <<>> /\ fftIn = <<>> /\ monoLocal = <<>>
    /\ upc = "U_while" /\ newPaused = FALSE /\ snap = IdleRender
    /\ toPush = 0 /\ cmds = 0 /\ nextTrack = 3
    /\ hist = HistInit

SpecTwoTracks == InitTwoQueued /\ [][NextTransport]_vars

\* Quitting a queued list: keys p, q and SIGINT.
NextQuit == AudioCore \/ AudioPause \/ UILoop \/ HandleP \/ HandleQ

SpecQuit == InitQueued /\ [][NextQuit]_vars

\* The playlist: keys Enter, a, x.
NextQueue == AudioCore \/ UILoop \/ HandleEnter \/ HandleA \/ HandleX

SpecQueue == Init /\ [][NextQueue]_vars

\* Every lock of both threads: keys p and x on a queued list.
NextLocks == AudioCore \/ AudioPause \/ UILoop \/ HandleP \/ HandleX

SpecLocks == InitQueued /\ [][NextLocks]_vars

\* Every way out of play_file, on a queued list: keys p, s, q and SIGINT.
NextSession == AudioCore \/ AudioPause \/ UILoop \/ HandleP \/ HandleS \/ HandleQ

SpecSession == InitQueued /\ [][NextSession]_vars

\* The seek arithmetic alone: the worker stands before line 1322 of a session in
\* progress, with any reported position (-1: mpg123_tell failed), length (<= 0:
\* unknown), rate and pending seek; its one step is PSeek.
InitSeekCalc ==
    /\ shouldQuit = FALSE /\ stopTrack = FALSE /\ isPlaying = TRUE
    /\ isPaused = FALSE /\ visMode = "WAVEFORM"
    /\ seekCommand \in {-SeekStep, 0, SeekStep}
    /\ playlist = <<>> /\ playlistMutex = "free"
    /\ pauseMutex = "free"
    /\ renderMutex = "free" /\ renderDirty = FALSE
    /\ apc = "P_seek" /\ nextPath = 1 /\ wasPaused = FALSE
    /\ currentSec = 0 /\ modeLocal = "WAVEFORM"
    /\ decPos \in -1..MaxPos /\ length \in -1..MaxPos /\ rate \in 1..MaxRate
    /\ renderState = [IdleRender EXCEPT !.file = 1, !.totalSec = TotalSec(length, rate),
                                        !.mono = FFT_SIZE]
    /\ res = Acquire(NoResources, Resources) /\ streamRunning = TRUE
    /\ buffer = <<>> /\ fftIn = <<>> /\ monoLocal = <<>>
    /\ upc = "U_while" /\ newPaused = FALSE /\ snap = IdleRender
    /\ toPush = 0 /\ cmds = 1 /\ nextTrack = 2
    /\ hist = [HistInit EXCEPT
                 !.issued = IF seekCommand = 0 THEN <<>> ELSE <<seekCommand>>,
                 !.popped = <<1>>]

NextSeekCalc == PSeek

SpecSeekCalc == InitSeekCalc /\ [][NextSeekCalc]_vars

\* Enqueueing: key a alone, from the idle program.  Each thread is scheduled
\* fairly: whenever it has a next statement to run it eventually runs it.  A thread
\* blocked in a condition-variable wait has none (a wake-up without a notify may
\* happen, nothing promises it), and no key is ever owed by the user.
NextEnqueue == AudioCore \/ UILoop \/ HandleA

AudioRuns == apc \notin {"A_blocked", "P_pblocked"} /\ AudioCore

UIRuns == UILoop \/ UPlaylistLock \/ UAPush \/ UNotifyPlaylist

SpecEnqueueFair ==
    Init /\ [][NextEnqueue]_vars /\ WF_vars(AudioRuns) /\ WF_vars(UIRuns)

\* Enqueueing and quitting: keys a, q and SIGINT, from the idle program.
NextEnqueueQuit == AudioCore \/ UILoop \/ HandleA \/ HandleQ

SpecEnqueueQuit == Init /\ [][NextEnqueueQuit]_vars

\* The per-chunk update alone: the worker stands before line 1344 with a chunk
\* written, and the decoder reports any position (-1: mpg123_tell failed) against
\* any length it reported at open (<= 0: unknown); the steps are the elapsed-time
\* update and the publish.
InitElapsedCalc ==
    /\ shouldQuit = FALSE /\ stopTrack = FALSE /\ isPlaying = TRUE
    /\ isPaused = FALSE /\ visMode = "WAVEFORM" /\ seekCommand = 0
    /\ playlist = <<>> /\ playlistMutex = "free"
    /\ pauseMutex = "free"
    /\ renderMutex = "free" /\ renderDirty = FALSE
    /\ apc = "P_feat" /\ nextPath = 1 /\ wasPaused = FALSE
    /\ currentSec = 0 /\ modeLocal = "WAVEFORM"
    /\ decPos \in -1..MaxPos /\ length \in -1..MaxPos /\ rate \in 1..MaxRate
    /\ renderState = [IdleRender EXCEPT !.file = 1, !.totalSec = TotalSec(length, rate),
                                        !.mono = FFT_SIZE]
    /\ res = Acquire(NoResources, Resources) /\ streamRunning = TRUE
    /\ buffer = Chunk(rate) /\ fftIn = <<>> /\ monoLocal = <<>>
    /\ upc = "U_while" /\ newPaused = FALSE /\ snap = IdleRender
    /\ toPush = 0 /\ cmds = 1 /\ nextTrack = 2
    /\ hist = [HistInit EXCEPT !.popped = <<1>>]

NextPublishChunk == PFeat \/ PRenderLock \/ PCPub \/ PCPubRest \/ PRenderDirty

SpecElapsedCalc == InitElapsedCalc /\ [][NextPublishChunk]_vars

\* The feature extraction alone, in Spectrum mode: the worker stands before line
\* 1344 with any chunk of 1 .. MaxFrames frames in buffer.
Samples == (0 - MaxSample)..MaxSample

Chunks == UNION {[1..f -> Samples] : f \in 1..MaxFrames}

\* Chunks of more frames than FFT_SIZE, up to the BUFFER_SIZE bytes of one read
\* of 16-bit stereo; frame k holds the sample k.
LongChunks == {[k \in 1..f |-> k] : f \in {FFT_SIZE + 1, BUFFER_SIZE \div 4}}

InitSpectrumCalc ==
    /\ shouldQuit = FALSE /\ stopTrack = FALSE /\ isPlaying = TRUE
    /\ isPaused = FALSE /\ visMode = "SPECTRUM" /\ seekCommand = 0
    /\ playlist = <<>> /\ playlistMutex = "free"
    /\ pauseMutex = "free"
    /\ renderMutex = "free" /\ renderDirty = FALSE
    /\ apc = "P_feat" /\ nextPath = 1 /\ wasPaused = FALSE
    /\ currentSec = 0 /\ modeLocal = "WAVEFORM"
    /\ decPos = Rate /\ length = LengthSec * Rate /\ rate = Rate
    /\ renderState = [IdleRender EXCEPT !.file = 1, !.totalSec = TotalSec(length, rate),
                                        !.mode = "SPECTRUM", !.mono = FFT_SIZE]
    /\ res = Acquire(NoResources, Resources) /\ streamRunning = TRUE
    /\ buffer \in Chunks \cup LongChunks /\ fftIn = <<>> /\ monoLocal = <<>>
    /\ upc = "U_while" /\ newPaused = FALSE /\ snap = IdleRender
    /\ toPush = 0 /\ cmds = 1 /\ nextTrack = 2
    /\ hist = [HistInit EXCEPT !.popped = <<1>>]

SpecSpectrumCalc == InitSpectrumCalc /\ [][NextPublishChunk]_vars

\* One queued track played while keys 1 and 2 switch the visualization mode.
NextVis == AudioCore \/ UILoop \/ HandleVis

SpecVis == InitQueued /\ [][NextVis]_vars

\* ============================================================= properties

Max(a, b) == IF a >= b THEN a ELSE b

Min(a, b) == IF a <= b THEN a ELSE b

\* C1: when the worker consumes a nonzero pending seek, the delta it applies is
\* the sum of the deltas the UI issued since the worker last zeroed seekCommand
\* (two KEY_LEFT give -10, not -5).
SeeksAccumulate ==
    hist.applied # <<>> => hist.applied[2] = SeqSum(hist.applied[1])

\* C2: a quit issued while the worker is in its pause wait always gets the worker
\* out of the wait: the worker is never left blocked on pauseCV once the quit's
\* notifications are done and main waits in join (from there no statement of
\* either thread wakes it, so the join never completes).
QuitWhilePausedExits ==
    ~(shouldQuit /\ apc = "P_pblocked" /\ upc = "U_join")

\* C3: a dequeued track that is in flight when key x raises stopTrack never
\* passes play_file's loop condition again.
StoppedTrackNeverPlaysOn == ~hist.playedOn

\* C4: the stop flag raised by Enter on track T never ends T itself: T's worker
\* never leaves its loop on stopTrack as stored by the Enter that pushed T.
ReplacePlaysTrack == ~hist.selfKilled

\* C5: with no clear so far, audio_thread has dequeued the tracks in exactly the
\* order they were pushed (tracks are numbered in push order).
FifoOrder ==
    ~hist.purged => hist.popped = [i \in 1..Len(hist.popped) |-> i]

FifoOrderWitness ==
    /\ ~hist.purged
    /\ Len(hist.popped) >= 2

\* C6: while the UI is between the clear and the push of Enter it holds
\* playlistMutex and the consumer is outside its own critical section; and after
\* the replace by T, with no push since, the consumer has dequeued nothing and at
\* most T is pending, or it has dequeued exactly T and nothing is pending.
AudioPlaylistCS == {"A_pred", "A_cvwait", "A_chkquit", "A_pop"}

ReplaceAtomic ==
    /\ upc \in {"U_e_clear", "U_e_push"} =>
         playlistMutex = "ui" /\ apc \notin AudioPlaylistCS
    /\ hist.repl # NoTrack =>
         \/ hist.replPops = <<>> /\ playlist \in {<<hist.repl>>, <<>>}
         \/ hist.replPops = <<hist.repl>> /\ playlist = <<>>

ReplaceAtomicWitness ==
    /\ hist.repl # NoTrack
    /\ hist.replPops = <<hist.repl>>
    /\ hist.removed # {}
    /\ apc = "A_blocked"

\* C7: every pushed track is in exactly one place: pending in the playlist,
\* dequeued once by audio_thread, or removed by a clear; none is in two places
\* or twice in one.
NoTrackLostOrDuplicated ==
    LET pending  == SeqToSet(playlist)
        dequeued == SeqToSet(hist.popped)
    IN  /\ pending \cup dequeued \cup hist.removed = 1..(nextTrack - 1)
        /\ pending \cap dequeued = {}
        /\ pending \cap hist.removed = {}
        /\ dequeued \cap hist.removed = {}
        /\ Cardinality(pending) = Len(playlist)
        /\ Cardinality(dequeued) = Len(hist.popped)

NoTrackLostOrDuplicatedWitness ==
    /\ Len(hist.popped) >= 1
    /\ hist.removed # {}
    /\ nextTrack = MaxPush + 1

\* C8: a nonzero seek delta d consumed at decoder position p >= 0 seeks to
\* max(0, min(L, p + d*r)) when the length L is known (L > 0), and to
\* max(0, p + d*r) when it is not.
SeekClamped ==
    (apc = "P_read" /\ hist.applied # <<>> /\ hist.applied[3] >= 0) =>
        LET d == hist.applied[2]
            p == hist.applied[3]
        IN  decPos = IF length > 0
                     THEN Max(0, Min(length, p + d * rate))
                     ELSE Max(0, p + d * rate)

SeekClampedWitness ==
    /\ apc = "P_read" /\ hist.applied # <<>> /\ hist.applied[3] >= 0
    /\ length > 0
    /\ hist.applied[3] + hist.applied[2] * rate > length
    /\ decPos = length

\* C9 as stated: across a pause with no seek key between the Pause and the first
\* per-chunk publish after the resume, the elapsed time of that publish is at
\* least the elapsed time published when the worker entered Paused.
PauseKeepsTime ==
    (hist.cross # <<>> /\ hist.cross[3]) => hist.cross[2] >= hist.cross[1]

\* C9 as amended: the same, provided the worker applied no seek between its
\* previous per-chunk publish and that one; and while the worker is in Paused the
\* decoder position and the published elapsed time stay what they were when it
\* entered.
PausedPcs == {"P_ppub_dirty", "P_plock", "P_ppred", "P_pcvwait", "P_pblocked",
              "P_prelock", "P_restart", "P_rpub_lock", "P_rpub", "P_rpub_dirty",
              "P_pbreak"}

PauseKeepsTimeUnlessSeekApplied ==
    /\ (hist.cross # <<>> /\ ~hist.cross[4]) => hist.cross[2] >= hist.cross[1]
    /\ apc \in PausedPcs =>
         /\ decPos = hist.pausePos
         /\ renderState.curSec = hist.pauseBase

PauseKeepsTimeWitness ==
    /\ hist.cross # <<>>
    /\ ~hist.cross[4]
    /\ hist.cross[1] > 0
    /\ hist.cross[2] > hist.cross[1]

\* C10: no release ever hits a resource that is not held, and whenever play_file
\* has returned, nothing of the decode session is held.
SessionReleased ==
    /\ \A r \in Resources : res[r] # "bad"
    /\ apc \in NotInFlightPcs => \A r \in Resources : res[r] \in {"none", "freed"}

SessionReleasedWitness ==
    /\ apc = "A_postplay"
    /\ res["plan"] = "freed"
    /\ isPaused

\* C11: a play_file call that returns false (a failed Opening step, or a failed
\* transform allocation) leaves audio_thread running with the failed track gone
\* from the playlist and dequeued only once; and if a track is pending at that
\* return, that track is eventually dequeued and play_file is entered for it.
ReturnedFalse == apc = "A_postplay" /\ hist.exit \in {"open", "fft", "plan"}

DequeuedOnce(t) == Cardinality({i \in 1..Len(hist.popped) : hist.popped[i] = t}) = 1

SkipAndAdvance ==
    /\ [](apc \notin {"A_exit", "A_done"})
    /\ [](ReturnedFalse => nextPath \notin SeqToSet(playlist) /\ DequeuedOnce(nextPath))
    /\ \A t \in 1..MaxPush :
         (ReturnedFalse /\ playlist # <<>> /\ Front(playlist) = t)
             ~> (apc = "P_open" /\ nextPath = t)

SkipAndAdvanceWitness ==
    /\ ReturnedFalse
    /\ hist.exit = "open"
    /\ playlist # <<>>
    /\ upc = "U_while"

\* C12: from the entry of play_file up to its first publish (the Opening steps
\* and the transform allocations) no step of either thread changes any field of
\* renderState and no step of the worker changes renderDirty; so at a return
\* false both are what they were before the call.
OpeningPcs == {"P_open", "P_setPlaying", "P_clrPaused", "P_clrSeek", "P_fft", "P_plan"}

OpeningKeepsRender ==
    apc \in OpeningPcs =>
        /\ renderState' = renderState
        /\ apc' # apc => renderDirty' = renderDirty

FailedOpenKeepsRender == [][OpeningKeepsRender]_vars

FailedOpenKeepsRenderWitness ==
    /\ ReturnedFalse
    /\ hist.exit = "plan"
    /\ renderState.file \notin {NoTrack, nextPath}
    /\ ~renderDirty

\* C13: a decoder read error and an output write error leave the loop into the
\* same Closing as the end of the stream: while the worker is on its way out it
\* is in Closing, and when play_file has returned every resource of the session
\* is released, isPlaying is false and the closing publish is in renderState,
\* exactly as after MPG123_DONE; audio_thread keeps running, and a track pending
\* at the failure is eventually dequeued and play_file entered for it.
ClosingPcs == {"C_free", "C_clrPlaying", "C_pub_lock", "C_pub", "C_pub_rest",
               "C_pub_dirty"}

Closed ==
    /\ \A r \in Resources : res[r] = "freed"
    /\ ~isPlaying /\ ~streamRunning
    /\ renderState.curSec = 0 /\ renderState.totalSec = 0 /\ ~renderState.paused
    /\ renderState.mono = 0 /\ renderState.magnitudes = 0

MidStreamFailed == hist.exit \in {"read", "write"}

MidStreamFailureCloses ==
    /\ [](apc \notin {"A_exit", "A_done"})
    /\ [](MidStreamFailed => apc \in ClosingPcs \cup {"A_postplay"})
    /\ []((apc = "A_postplay" /\ hist.exit \in {"read", "write", "end"}) => Closed)
    /\ \A t \in 1..MaxPush :
         (MidStreamFailed /\ playlist # <<>> /\ Front(playlist) = t)
             ~> (apc = "P_open" /\ nextPath = t)

MidStreamFailureClosesWitness ==
    /\ apc = "A_postplay"
    /\ hist.exit = "read"
    /\ decPos > 0
    /\ playlist # <<>>

\* C14: no step of the UI thread, of the audio thread or of the signal handler
\* takes shouldQuit from true to false.
QuitStays == shouldQuit => shouldQuit'

QuitMonotonic == [][QuitStays]_vars

QuitMonotonicWitness ==
    /\ shouldQuit
    /\ apc = "A_done"
    /\ upc = "U_done"
    /\ hist.popped # <<>>

\* C15: a quit issued while audio_thread is in, or about to enter, the playlist
\* wait on an empty playlist always gets it out of the wait: audio_thread is
\* never left blocked on playlistCV once the quit's notifications are done and
\* main waits in join (from there no statement of either thread wakes it, so it
\* never terminates and the join never completes).
QuitWhileIdleExits ==
    ~(shouldQuit /\ apc = "A_blocked" /\ playlist = <<>> /\ upc = "U_join")

\* C16: the step in which audio_thread reads shouldQuit as true after the queue
\* wait, after play_file or at its loop condition takes it to its exit and
\* dequeues nothing; and once on its exit it stays there and dequeues nothing
\* more, whatever is pending.
QuitSeenStops ==
    /\ (apc \in {"A_chkquit", "A_postplay", "A_while"} /\ shouldQuit /\ apc' # apc) =>
           /\ apc' = "A_exit"
           /\ playlist' = playlist
           /\ hist'.popped = hist.popped
    /\ apc \in {"A_exit", "A_done"} =>
           /\ apc' \in {"A_exit", "A_done"}
           /\ hist'.popped = hist.popped

NoStartAfterQuit == [][QuitSeenStops]_vars

NoStartAfterQuitWitness ==
    /\ apc = "A_done"
    /\ hist.popped # <<>>
    /\ playlist # <<>>

\* C17: between the consumer's predicate check and its blocking the playlist
\* stays empty (the push needs the mutex the consumer holds); and a track at the
\* front of the playlist while the consumer is blocked in the wait is eventually
\* dequeued and play_file entered for it.
EnqueueWakes ==
    /\ [](apc = "A_cvwait" => playlist = <<>> /\ playlistMutex = "audio")
    /\ \A t \in 1..MaxPush :
         (apc = "A_blocked" /\ playlist # <<>> /\ Front(playlist) = t)
             ~> (apc = "P_open" /\ nextPath = t)

EnqueueWakesWitness ==
    /\ apc = "A_blocked"
    /\ playlist # <<>>
    /\ upc = "U_notify_playlist"

\* C18: once the UI has cleared isPaused and notified pauseCV, with no stop and
\* no quit, the worker is never left blocked in the pause wait: with the resume's
\* handler done and main back in its loop, no statement of either thread would
\* wake it before another key.
UILoopPcs == {"U_while", "U_dirty", "U_snap_lock", "U_snap", "U_draw", "U_status",
              "U_getch"}

ResumeWakesWorker ==
    ~(apc = "P_pblocked" /\ ~isPaused /\ ~stopTrack /\ ~shouldQuit /\ upc \in UILoopPcs)

\* C19: whenever the published total time is positive, the published elapsed
\* time lies between 0 and the total, whatever position the decoder reported.
ElapsedInRange ==
    renderState.totalSec > 0 =>
        0 <= renderState.curSec /\ renderState.curSec <= renderState.totalSec

\* C20: in Spectrum mode, for a chunk of F < FFT_SIZE frames, the transform input
\* holds the chunk's first-channel samples in positions 0 .. F-1 and 0 in
\* positions F .. FFT_SIZE-1 (positions are 1-based here).
SpectrumInputZeroPadded ==
    (fftIn # <<>> /\ Len(buffer) < FFT_SIZE) =>
        \A i \in 1..FFT_SIZE :
            fftIn[i] = IF i <= Len(buffer) THEN buffer[i] ELSE 0

\* C21: whenever a chunk has been processed in Spectrum mode, whatever its
\* length in frames, the magnitude buffer published for it has exactly
\* FFT_SIZE / 2 entries.
ChunkPublished == apc \in {"P_cpub_dirty", "P_loop"}

SpectrumHasHalfSizeBins ==
    (ChunkPublished /\ modeLocal = "SPECTRUM") =>
        /\ renderState.mode = "SPECTRUM"
        /\ renderState.magnitudes = FFT_SIZE \div 2

SpectrumHasHalfSizeBinsWitness ==
    /\ ChunkPublished /\ modeLocal = "SPECTRUM"
    /\ Len(buffer) = MaxFrames
    /\ fftIn # <<>>
    /\ renderState.magnitudes = FFT_SIZE \div 2

\* C22: after play_file returns from a track that reached Streaming (by the end
\* of the stream, a stop, a quit or an error), renderState is fully idle: file
\* is empty, curSec and totalSec are 0, paused is false, and mono and
\* magnitudes are empty.
ReturnedFromStreaming ==
    apc = "A_postplay" /\ hist.exit \in {"end", "stop", "read", "write"}

ClosingPublishesIdle ==
    ReturnedFromStreaming =>
        /\ renderState.file = NoTrack
        /\ renderState.curSec = 0 /\ renderState.totalSec = 0
        /\ renderState.paused = FALSE
        /\ renderState.mono = 0 /\ renderState.magnitudes = 0

\* C23: every publish is a full overwrite: at the end of each critical section
\* in which the worker modifies renderState (track start, entering Paused,
\* leaving Paused, per-chunk, Closing) the section has assigned every field, so
\* no field of the published state survives from an earlier publish.
EveryPublishOverwritesAll ==
    apc \in RenderDirtyPcs => hist.kept = {}

\* C24: the worker stores renderDirty for a publish only after that publish's
\* critical section is complete, and whenever the UI copies renderState under
\* renderMutex the copy is the state left by the latest completed worker
\* critical section, so a snapshot taken after a true renderDirty.exchange
\* reflects the publish that set the flag or a later one, and no snapshot is
\* a state from the middle of a critical section.
DirtyImpliesVisible ==
    /\ apc \in RenderDirtyPcs =>
         renderMutex # "audio" /\ renderState = hist.published
    /\ upc = "U_snap" => renderState = hist.published
    /\ ~hist.torn

DirtyImpliesVisibleWitness ==
    /\ upc = "U_draw" /\ ~hist.torn
    /\ snap.curSec > 0
    /\ apc = "P_cpub_rest" /\ renderState # snap

\* C25: no published update is lost.  A completed worker publish that no UI
\* copy has covered yet is always still announced (renderDirty is set, or the
\* worker is about to set it) or about to be copied, so the UI's clearing of
\* renderDirty never discards it; and while the UI loop keeps running every
\* publish is followed by a UI draw of a snapshot that includes it, which after
\* the worker's last publish is the final renderState.
PublishAnnounced ==
    renderDirty \/ apc \in RenderDirtyPcs \/ upc \in {"U_snap_lock", "U_snap"}

NoPublishLost ==
    /\ [](hist.unseen => PublishAnnounced)
    /\ []<>(upc = "U_dirty") =>
         (hist.unseen ~> (upc = "U_draw" /\ ~hist.unseen /\ snap = hist.published))

NoPublishLostWitness ==
    /\ upc = "U_draw" /\ ~hist.unseen /\ snap = hist.published
    /\ apc = "A_blocked" /\ playlist = <<>>
    /\ snap.file # NoTrack /\ snap.totalSec = 0

\* C26: in every reachable state, the value the UI reads as "currently playing"
\* (isPlaying, which draw_status_bar shows as Play/Paused against Idle) is true
\* if and only if an invocation of play_file by audio_thread is in progress.
PlayFilePcs == InFlightPcs \ {"A_clrstop"}

PlayingIffInProgress ==
    isPlaying <=> apc \in PlayFilePcs

\* C27: whenever the worker has left Paused and goes on to Streaming, the output
\* device is started before the next chunk is written: for every interleaving
\* of Pause/Resume toggles with the worker's checks, the worker is never about
\* to call Pa_WriteStream while the stream is still stopped from a pause.
WritesOnStartedDevice ==
    apc = "P_write" => streamRunning

\* C28: a SkipCurrent or StopAndClearQueue issued while the worker is blocked in,
\* or about to block in, the pause wait always ends the track: once the
\* handler has raised stopTrack and notified pauseCV and main is back in its
\* loop, the worker is never left blocked in the wait (from there no statement
\* of either thread wakes it, so it would neither run Closing nor let
\* audio_thread go on to the next track).
SkipWhilePausedEnds ==
    ~(apc = "P_pblocked" /\ stopTrack /\ ~shouldQuit /\ upc \in UILoopPcs)

\* C29: after the UI has set stopTrack (or isPaused) the worker calls
\* Pa_WriteStream at most once while the flag stays set: it writes at most the
\* chunk of the iteration under way and then leaves the loop (respectively
\* enters Paused), never a second one.
CommandSeenWithinOneChunk ==
    hist.lateStop <= 1 /\ hist.latePause <= 1

CommandSeenWithinOneChunkWitness ==
    /\ hist.lateStop = 1 /\ hist.latePause = 0
    /\ hist.exit = "stop"
    /\ apc = "C_free"

\* C30: a read that returns MPG123_OK with no whole frame (the worker leaves the
\* read without breaking and the decoder has not advanced) is a pure retry: the
\* worker goes straight back to the loop condition, where stop, quit and pause
\* are checked before the next read, without calling Pa_WriteStream, and the
\* step leaves the elapsed time, every field of renderState and renderDirty
\* unchanged.
ZeroByteRead ==
    apc = "P_read" /\ apc' \notin {"P_read", "C_free"} /\ decPos' = decPos

ZeroByteReadRetries ==
    ZeroByteRead =>
        /\ apc' = "P_loop"
        /\ currentSec' = currentSec
        /\ renderState' = renderState /\ renderDirty' = renderDirty
        /\ hist'.lateStop = hist.lateStop /\ hist'.latePause = hist.latePause
        /\ hist'.published = hist.published

ZeroByteReadIsRetry == [][ZeroByteReadRetries]_vars

\* The worker is back at the loop condition with a seek applied and nothing
\* published since: between the seek and the loop condition lies only the read,
\* which therefore returned no whole frame.
ZeroByteReadIsRetryWitness ==
    /\ apc = "P_loop"
    /\ hist.seekSincePub
    /\ hist.applied # <<>>
    /\ renderState.curSec = currentSec

\* C31: the consumer clears the stop flag before each track: every entry into
\* play_file is made with stopTrack false, so a stop stored while no track was
\* dequeued is gone before the next track's worker reads the flag, and only a
\* stop stored after the dequeue can end that track.
EntersPlayFile == apc # "P_open" /\ apc' = "P_open"

EntersWithStopClear == EntersPlayFile => ~stopTrack'

StaleStopCleared == [][EntersWithStopClear]_vars

\* Track 1, the only track pushed, is at play_file's first statement with the
\* flag clear, after a key x whose clear ran (and removed nothing) and whose
\* stopTrack.store(true) found no track in flight: x came first, while the
\* consumer was idle, and the push after it.
StaleStopClearedWitness ==
    /\ apc = "P_open" /\ ~stopTrack
    /\ hist.popped = <<1>> /\ nextTrack = 2
    /\ hist.purged /\ hist.removed = {}
    /\ hist.stopHit = NoTrack /\ hist.stopBy = NoTrack
    /\ cmds = 2 /\ upc \in UILoopPcs

\* C32: no lock is held across blocking I/O: whenever the audio thread is at
\* the call of mpg123_read or of Pa_WriteStream it holds none of
\* playlistMutex, pauseMutex and renderMutex.
NoLockAcrossIO ==
    apc \in {"P_read", "P_write"} =>
        /\ playlistMutex # "audio"
        /\ pauseMutex # "audio"
        /\ renderMutex # "audio"

\* The write of the first chunk after a pause: the worker has held pauseMutex
\* and renderMutex in the pause block and published no chunk since.
NoLockAcrossIOWitness ==
    /\ apc = "P_write" /\ streamRunning
    /\ hist.pauseBase >= 0
    /\ pauseMutex = "free" /\ renderMutex # "audio" /\ playlistMutex # "audio"

\* C33: magnitudes are empty outside Spectrum mode: whenever renderState is not
\* inside one of the worker's critical sections, and in every published state
\* and every UI snapshot, non-empty magnitudes come with mode SPECTRUM and have
\* exactly FFT_SIZE / 2 entries; a mode change by the UI alone never yields
\* mode WAVEFORM with non-empty magnitudes.
MagnitudesFit(rs) ==
    rs.magnitudes # 0 => rs.mode = "SPECTRUM" /\ rs.magnitudes = FFT_SIZE \div 2

MagnitudesOnlyInSpectrum ==
    /\ renderMutex # "audio" => MagnitudesFit(renderState)
    /\ MagnitudesFit(hist.published)
    /\ MagnitudesFit(snap)

\* The UI has switched to Waveform after a Spectrum chunk was published, and
\* the worker is about to publish its first Waveform chunk.
MagnitudesOnlyInSpectrumWitness ==
    /\ renderState.magnitudes = FFT_SIZE \div 2 /\ renderState.mode = "SPECTRUM"
    /\ visMode = "WAVEFORM" /\ modeLocal = "WAVEFORM"
    /\ apc = "P_cpub_lock"

\* C34: waveform decimation is nearest-neighbour and in bounds: for a chunk of
\* F >= 1 frames and every column i in 0 .. FFT_SIZE-1, the mono buffer the
\* worker publishes holds at i the first-channel sample of frame
\* round(i / (FFT_SIZE-1) * (F-1)), and that frame index lies in 0 .. F-1
\* (columns and frames are 1-based in the sequences).
NearestFrame(i, F) == (2 * i * (F - 1) + (FFT_SIZE - 1)) \div (2 * (FFT_SIZE - 1))

WaveformDecimated ==
    monoLocal # <<>> =>
        /\ Len(monoLocal) = FFT_SIZE
        /\ \A i \in 0..(FFT_SIZE - 1) :
              /\ NearestFrame(i, Len(buffer)) \in 0..(Len(buffer) - 1)
              /\ monoLocal[i + 1] = buffer[NearestFrame(i, Len(buffer)) + 1]

WaveformDecimatedWitness ==
    /\ apc = "P_cpub_rest"
    /\ Len(buffer) = BUFFER_SIZE \div 4
    /\ monoLocal # <<>>
    /\ monoLocal[1] = buffer[1]
    /\ monoLocal[FFT_SIZE] = buffer[Len(buffer)]

\* C35: Closing releases in reverse order of acquisition by resource group:
\* first the transform plan and buffers, then the output stream and the output
\* subsystem, then the decoder; and no resource is released while something
\* made from it is still held, so nothing is used after its release.
Group(r) ==
    CASE r \in {"lib", "mh", "file"} -> 1
      [] r \in {"pa", "stream"} -> 2
      [] r \in {"fftIn", "fftOut", "plan"} -> 3

ClosingInReverseOrder ==
    hist.released # <<>> =>
        /\ SeqToSet(hist.released) = Resources
        /\ \A i, j \in 1..Len(hist.released) :
              i < j => Group(hist.released[i]) >= Group(hist.released[j])
        /\ \A r \in Resources : res[r] = "freed"

ClosingInReverseOrderWitness ==
    /\ apc = "C_clrPlaying"
    /\ hist.released # <<>>
    /\ hist.exit = "end"
    /\ \A r \in Resources : res[r] = "freed"

\* C36: at most one decode session exists at a time: audio_thread, the only
\* caller of play_file, is in at most one invocation, and whenever it is in
\* none, in particular when it has dequeued the next track and enters
\* play_file, no decoder handle and no output stream is open: the previous
\* invocation closed its own before returning.
BetweenInvocationsPcs == NotInFlightPcs \cup {"A_clrstop", "P_open"}

OneDecodeSession ==
    /\ apc \in BetweenInvocationsPcs =>
         res["mh"] # "held" /\ res["stream"] # "held" /\ ~streamRunning
    /\ res["mh"] # "bad" /\ res["stream"] # "bad"

OneDecodeSessionWitness ==
    /\ apc = "P_open"
    /\ Len(hist.popped) = 2
    /\ res["mh"] = "freed" /\ res["stream"] = "freed"

\* C37: transport state does not carry over between tracks: from the end of
\* play_file's two resets on, through the whole of its loop, neither isPaused nor
\* seekCommand holds a value that was stored before the call was entered.
AfterResetPcs == PlayFilePcs \ {"P_open", "P_setPlaying", "P_clrPaused", "P_clrSeek"}

NoCarryOver ==
    apc \in AfterResetPcs => hist.stale = {}

NoCarryOverWitness ==
    /\ apc = "P_loop" /\ nextPath = 2
    /\ hist.carried = {"pause", "seek"}
    /\ hist.stale = {}
    /\ ~isPaused /\ seekCommand = 0

\* C38: a pending seek is applied at most once: every decoder seek the worker
\* performs uses up a value the UI stored since the worker's previous read of
\* seekCommand, and an iteration that reads 0 performs no seek and leaves the
\* decoder position as it was.
SeekExchange == apc = "P_seek" /\ apc' = "P_read"

SeekConsumesStore ==
    SeekExchange =>
        /\ seekCommand = 0 => decPos' = decPos /\ hist'.applied = <<>>
        /\ hist'.applied # <<>> =>
              /\ hist.issued # <<>>
              /\ hist'.applied[2] = hist.issued[Len(hist.issued)]
              /\ hist'.issued = <<>>

SeekAppliedAtMostOnce == [][SeekConsumesStore]_vars

SeekAppliedAtMostOnceWitness ==
    /\ apc = "P_read"
    /\ hist.applied # <<>> /\ Len(hist.applied[1]) = 1
    /\ decPos # hist.applied[3]
    /\ seekCommand = 0

\* C39: the lock protocol is deadlock-free: in no reachable state does each thread
\* wait for a mutex the other holds; the audio thread asks for a mutex while
\* holding one only when it takes renderMutex under pauseMutex; the UI thread never
\* holds pauseMutex and never holds two mutexes at once.
Mutexes == {"playlistMutex", "pauseMutex", "renderMutex"}

Holder(m) ==
    CASE m = "playlistMutex" -> playlistMutex
      [] m = "pauseMutex" -> pauseMutex
      [] m = "renderMutex" -> renderMutex

HeldBy(t) == {m \in Mutexes : Holder(m) = t}

UIWants ==
    CASE upc = "U_snap_lock" -> {"renderMutex"}
      [] upc \in {"U_e_lock", "U_a_lock", "U_x_lock", "U_status"} -> {"playlistMutex"}
      [] OTHER -> {}

AudioWants ==
    CASE apc \in RenderLockPcs -> {"renderMutex"}
      [] apc \in {"A_lock", "A_relock"} -> {"playlistMutex"}
      [] apc \in {"P_plock", "P_prelock"} -> {"pauseMutex"}
      [] OTHER -> {}

LockProtocolDeadlockFree ==
    /\ ~(UIWants \subseteq HeldBy("audio") /\ UIWants # {}
         /\ AudioWants \subseteq HeldBy("ui") /\ AudioWants # {})
    /\ (AudioWants # {} /\ HeldBy("audio") # {}) =>
          AudioWants = {"renderMutex"} /\ HeldBy("audio") = {"pauseMutex"}
    /\ Cardinality(HeldBy("audio")) = 2 => HeldBy("audio") = {"pauseMutex", "renderMutex"}
    /\ pauseMutex # "ui"
    /\ Cardinality(HeldBy("ui")) <= 1
    /\ UIWants # {} => HeldBy("ui") = {}

LockProtocolDeadlockFreeWitness ==
    /\ apc = "P_rpub_lock" /\ pauseMutex = "audio"
    /\ renderMutex = "ui" /\ upc = "U_snap"
    /\ Len(hist.popped) = 1

====
